---- MODULE Spec2Model ----
(***************************************************************************)
(* Model of parser.js: the paced API client (class TwitterApiIO), the      *)
(* sync-state store, the paginating drivers (backfill, ingest-new), the    *)
(* refresh commands and members-sync.                                      *)
(*                                                                         *)
(* JavaScript runs one callback to completion, so one action of the model  *)
(* is the code between two suspension points (await of a timer, of the     *)
(* network or of a database round trip).  Date.now() is the variable now,  *)
(* which only the environment advances (Tick); within one action it is     *)
(* read once.  sleep(ms) resumes at any time not earlier than ms later.    *)
(* One clock unit stands for 1000 ms.                                      *)
(***************************************************************************)
EXTENDS Integers, Sequences, FiniteSets, TLC

\* ------------------------------------------------------------ bounds
\* largest minIntervalMs a client is constructed with (clock units)
MaxInterval == 2
\* largest `retries` option a get() call is given
MaxRetries == 2
\* how far the clock runs after construction
Horizon == 7
\* how many get() calls one client serves in a behaviour
MaxCalls == 2

\* Date.now() at construction: the epoch clock is far beyond any interval,
\* so _lastTs = 0 never makes the first call wait.
StartTime == MaxInterval
MaxTime == StartTime + Horizon

\* ------------------------------------------------------------ values
\* JavaScript null / undefined (an absent field)
NULL == "<null>"

\* `x` is truthy: neither absent nor the empty string
Truthy(x) == x /= NULL /\ x /= ""

\* a || b
Or(a, b) == IF Truthy(a) THEN a ELSE b

\* the milliseconds added to the backoff per attempt (1000 ms = 1 unit)
BackoffStep == 1

\* the get() calls that may be under way on one client instance; every command
\* of parser.js awaits a call before the next and so uses the first alone
Calls == {1, 2}

Paths == {"/twitter/community/tweets", "/twitter/user/info"}

Statuses == {200, 429, 404}

\* res.ok
Ok(status) == status >= 200 /\ status <= 299

\* `HTTP ${res.status}`
HttpText(status) ==
    CASE status = 200 -> "HTTP 200"
      [] status = 429 -> "HTTP 429"
      [] status = 404 -> "HTTP 404"
      [] OTHER -> "HTTP ?"

\* Response bodies: JSON objects with optional status, message and msg
\* fields, the empty body, and text that is not JSON.
Texts ==
    [kind : {"json"}, status : {NULL, "success", "error", ""},
     message : {NULL, "bad request"}, msg : {NULL, "limit"}]
    \cup [kind : {"empty", "garbage"}, status : {NULL}, message : {NULL}, msg : {NULL}]

\* data = text ? JSON.parse(text) : {}  /  catch: data = { raw: text }
ParseBody(text) ==
    IF text.kind = "json"
    THEN [status |-> text.status, message |-> text.message, msg |-> text.msg]
    ELSE [status |-> NULL, message |-> NULL, msg |-> NULL]

\* no response yet
NoRes == 0
NoText == [kind |-> "empty", status |-> NULL, message |-> NULL, msg |-> NULL]
NoData == [status |-> NULL, message |-> NULL, msg |-> NULL]
NoOut == [kind |-> "none", data |-> NoData, message |-> <<NULL, NULL>>]

VARIABLES
    now,            \* Date.now()
    minIntervalMs,  \* this.minIntervalMs
    lastTs,         \* this._lastTs
    cpc,            \* per call: where the get() call is suspended
    cpath,          \* per call: the path argument
    retries,        \* per call: the retries option
    attempt,        \* per call: the local attempt
    wakeAt,         \* per call: earliest time its pending timer fires
    res,            \* per call: res.status of the response being handled
    body,           \* per call: the body text read from that response
    out,            \* per call: what the call returned or threw
    calls,          \* get() calls started so far
    reqCount,       \* outbound HTTP requests started so far (history)
    firstReqTs,     \* start time of the first outbound request (history)
    prevReqTs,      \* start time of the request before the last one (history)
    lastReqTs,      \* start time of the last outbound request (history)
    callReqs        \* per call: HTTP requests it has issued (history)

cvars == <<now, minIntervalMs, lastTs, cpc, cpath, retries, attempt, wakeAt, res,
           body, out, calls, reqCount, firstReqTs, prevReqTs, lastReqTs, callReqs>>

VARIABLES
    api,               \* the community's history as the API serves it
    cmd,               \* process.argv[2]: the command the scheduler invokes
    cfg,               \* BACKFILL_CUTOFF_DAYS, BACKFILL_PAGES_PER_RUN
    ingest_state,      \* the community's row of table ingest_state
    community_tweets,  \* the rows of table community_tweets
    bf,                \* the locals of the backfill() run
    bfTrace,           \* what the backfill() run has done so far (history)
    prevEnd,           \* how the backfill run before this one ended: terminated
                       \* ("crashed"), on the cutoff or the last page ("complete"),
                       \* or otherwise (history)
    prevDone,          \* the pages a terminated run had processed (history)
    ing,               \* the locals of the ingestNew() run
    ingTrace,          \* what the ingestNew() run has done so far (history)
    lastUpsert         \* the Post of the last upsertCommunityTweet statement (history)

dvars == <<api, cmd, cfg, ingest_state, community_tweets, bf, bfTrace, prevEnd,
           prevDone, ing, ingTrace, lastUpsert>>

VARIABLES
    users,                 \* the rows of table users
    tweet_metrics_latest,  \* the rows of table tweet_metrics_latest
    rf,                    \* the locals of the refreshUsers() or refreshMetrics() run
    rfTrace                \* what that run has done so far (history)

rvars == <<users, tweet_metrics_latest, rf, rfTrace>>

VARIABLES
    community_members,  \* the rows of table community_members
    sm                  \* the locals of the syncMembers() run

mvars == <<community_members, sm>>

vars == <<cvars, dvars, rvars, mvars>>

\* ------------------------------------------------------------ client
\* constructor: this._lastTs = 0
ClientInit ==
    /\ now = StartTime
    /\ minIntervalMs \in 1..MaxInterval
    /\ lastTs = 0
    /\ cpc = [c \in Calls |-> "idle"]
    /\ cpath = [c \in Calls |-> NULL]
    /\ retries = [c \in Calls |-> 0]
    /\ attempt = [c \in Calls |-> 0]
    /\ wakeAt = [c \in Calls |-> 0]
    /\ res = [c \in Calls |-> NoRes]
    /\ body = [c \in Calls |-> NoText]
    /\ out = [c \in Calls |-> NoOut]
    /\ calls = 0
    /\ reqCount = 0
    /\ firstReqTs = 0
    /\ prevReqTs = 0
    /\ lastReqTs = 0
    /\ callReqs = [c \in Calls |-> 0]

\* a gate that lets the request go one clock unit early
MutPaceWait == lastTs + minIntervalMs - now - 1

\* const wait = this._lastTs + this.minIntervalMs - now
PaceWait == lastTs + minIntervalMs - now

\* this._lastTs = Date.now() at the end of _pace
PaceStamp == now

\* attempt++; fetch(url, ...): the outbound request starts
IssueRequest(c) ==
    /\ attempt' = [attempt EXCEPT ![c] = @ + 1]
    /\ cpc' = [cpc EXCEPT ![c] = "in_flight"]
    /\ reqCount' = reqCount + 1
    /\ firstReqTs' = IF reqCount = 0 THEN now ELSE firstReqTs
    /\ prevReqTs' = lastReqTs
    /\ lastReqTs' = now
    /\ callReqs' = [callReqs EXCEPT ![c] = @ + 1]

\* _pace() up to its suspension: either sleeps, or stamps _lastTs and lets the
\* caller go on to the request within the same turn
PaceThenRequest(c) ==
    IF PaceWait > 0
    THEN /\ cpc' = [cpc EXCEPT ![c] = "pace_sleep"]
         /\ wakeAt' = [wakeAt EXCEPT ![c] = now + PaceWait]
         /\ UNCHANGED <<lastTs, attempt, reqCount, firstReqTs, prevReqTs, lastReqTs, callReqs>>
    ELSE /\ lastTs' = PaceStamp
         /\ IssueRequest(c)
         /\ UNCHANGED wakeAt

\* get(path, params, { retries }) is called: await this._pace()
GetStart(c, path, r) ==
    /\ cpc[c] = "idle"
    /\ calls < MaxCalls
    /\ calls' = calls + 1
    /\ cpath' = [cpath EXCEPT ![c] = path]
    /\ retries' = [retries EXCEPT ![c] = r]
    /\ PaceThenRequest(c)
    /\ UNCHANGED <<res, body, out>>
    /\ UNCHANGED <<dvars, rvars, mvars, now, minIntervalMs>>

\* the timer of sleep(wait) inside _pace fires: this._lastTs = Date.now(),
\* then the request goes out
PaceWake(c) ==
    /\ cpc[c] = "pace_sleep"
    /\ now >= wakeAt[c]
    /\ lastTs' = PaceStamp
    /\ IssueRequest(c)
    /\ UNCHANGED <<dvars, rvars, mvars, now, minIntervalMs, cpath, retries, wakeAt, res, body, out, calls>>

\* a loop that retries once more than `retries`
MutShouldRetry(c, status) == status = 429 /\ attempt[c] <= retries[c] + 1

\* if (res.status === 429 && attempt <= retries)
ShouldRetry(c, status) == status = 429 /\ attempt[c] <= retries[c]

\* fetch resolves with the response's status line and headers
Respond(c, status) ==
    /\ cpc[c] = "in_flight"
    /\ res' = [res EXCEPT ![c] = status]
    /\ cpc' = [cpc EXCEPT ![c] =
                 IF ShouldRetry(c, status) THEN "read_429" ELSE "read_text"]
    /\ UNCHANGED <<dvars, rvars, mvars, now, minIntervalMs, lastTs, cpath, retries, attempt, wakeAt, body, out,
                   calls, reqCount, firstReqTs, prevReqTs, lastReqTs, callReqs>>

\* let waitMs = this.minIntervalMs + attempt * 1000
WaitMs(c) == minIntervalMs + attempt[c] * BackoffStep

\* 429 with attempts left: the body has been read (res.json()), sleep(waitMs)
Backoff(c) ==
    /\ cpc[c] = "read_429"
    /\ cpc' = [cpc EXCEPT ![c] = "backoff_sleep"]
    /\ wakeAt' = [wakeAt EXCEPT ![c] = now + WaitMs(c)]
    /\ UNCHANGED <<dvars, rvars, mvars, now, minIntervalMs, lastTs, cpath, retries, attempt, res, body, out,
                   calls, reqCount, firstReqTs, prevReqTs, lastReqTs, callReqs>>

\* the backoff timer fires: await this._pace(); continue
BackoffWake(c) ==
    /\ cpc[c] = "backoff_sleep"
    /\ now >= wakeAt[c]
    /\ PaceThenRequest(c)
    /\ UNCHANGED <<dvars, rvars, mvars, now, minIntervalMs, cpath, retries, res, body, out, calls>>

\* a client that reports every failure by the status alone
MutOutcomeStatusOnly(status, text, path) ==
    LET data == ParseBody(text) IN
    IF ~Ok(status)
    THEN [kind |-> "throw", data |-> NoData, message |-> <<HttpText(status), path>>]
    ELSE IF Truthy(data.status) /\ data.status /= "success"
    THEN [kind |-> "throw", data |-> NoData, message |-> <<Or(data.msg, "API status error"), path>>]
    ELSE [kind |-> "return", data |-> data, message |-> <<NULL, NULL>>]

\* a client that does not look at the envelope's status field
MutOutcomeNoEnvelope(status, text, path) ==
    LET data == ParseBody(text) IN
    IF ~Ok(status)
    THEN [kind |-> "throw", data |-> NoData,
          message |-> <<Or(data.message, Or(data.msg, HttpText(status))), path>>]
    ELSE [kind |-> "return", data |-> data, message |-> <<NULL, NULL>>]

\* what get() does with a response it does not retry: parse the text, throw on
\* a non-ok status or on an envelope whose status is not "success", else return
Outcome(status, text, path) ==
    LET data == ParseBody(text) IN
    IF ~Ok(status)
    THEN [kind |-> "throw", data |-> NoData,
          message |-> <<Or(data.message, Or(data.msg, HttpText(status))), path>>]
    ELSE IF Truthy(data.status) /\ data.status /= "success"
    THEN [kind |-> "throw", data |-> NoData,
          message |-> <<Or(data.msg, "API status error"), path>>]
    ELSE [kind |-> "return", data |-> data, message |-> <<NULL, NULL>>]

\* const text = await res.text() has delivered the body: throw or return
Settle(c, text) ==
    /\ cpc[c] = "read_text"
    /\ out' = [out EXCEPT ![c] = Outcome(res[c], text, cpath[c])]
    /\ body' = [body EXCEPT ![c] = text]
    /\ cpc' = [cpc EXCEPT ![c] = "settled"]
    /\ UNCHANGED <<dvars, rvars, mvars, now, minIntervalMs, lastTs, cpath, retries, attempt, wakeAt, res,
                   calls, reqCount, firstReqTs, prevReqTs, lastReqTs, callReqs>>

\* the caller has taken the result; the slot is free for the next call
Release(c) ==
    /\ cpc[c] = "settled"
    /\ cpc' = [cpc EXCEPT ![c] = "idle"]
    /\ attempt' = [attempt EXCEPT ![c] = 0]
    /\ callReqs' = [callReqs EXCEPT ![c] = 0]
    /\ cpath' = [cpath EXCEPT ![c] = NULL]
    /\ retries' = [retries EXCEPT ![c] = 0]
    /\ wakeAt' = [wakeAt EXCEPT ![c] = 0]
    /\ res' = [res EXCEPT ![c] = NoRes]
    /\ body' = [body EXCEPT ![c] = NoText]
    /\ out' = [out EXCEPT ![c] = NoOut]
    /\ UNCHANGED <<dvars, rvars, mvars, now, minIntervalMs, lastTs,
                   calls, reqCount, firstReqTs, prevReqTs, lastReqTs>>

\* wall-clock time passes
Tick ==
    /\ now < MaxTime
    /\ now' = now + 1
    /\ UNCHANGED <<dvars, rvars, mvars, minIntervalMs, lastTs, cpc, cpath, retries, attempt, wakeAt, res,
                   body, out, calls, reqCount, firstReqTs, prevReqTs, lastReqTs, callReqs>>

\* no get() call of the client is under way
AllIdle == \A c \in Calls : cpc[c] = "idle"

\* one client used by one sequence of awaited calls, as every command of
\* parser.js uses it: a call starts only when the previous one has settled
ClientNext ==
    \/ \E path \in Paths, r \in 0..MaxRetries : AllIdle /\ GetStart(1, path, r)
    \/ \E c \in Calls : PaceWake(c)
    \/ \E c \in Calls, status \in Statuses : Respond(c, status)
    \/ \E c \in Calls : Backoff(c)
    \/ \E c \in Calls : BackoffWake(c)
    \/ \E c \in Calls, text \in Texts : Settle(c, text)
    \/ \E c \in Calls : Release(c)
    \/ Tick

\* one client whose get() is called again before the call under way has
\* settled, as by Promise.all([api.get(..), api.get(..)])
OverlapNext ==
    \/ \E c \in Calls, r \in 0..1 : GetStart(c, "/twitter/user/info", r)
    \/ \E c \in Calls : PaceWake(c)
    \/ \E c \in Calls, status \in {200, 429} : Respond(c, status)
    \/ \E c \in Calls : Backoff(c)
    \/ \E c \in Calls : BackoffWake(c)
    \/ \E c \in Calls : Settle(c, NoText)
    \/ \E c \in Calls : Release(c)
    \/ Tick

\* ------------------------------------------------------------ bounds
\* pages the API's history has at most
MaxPages == 4
\* tweets one page has at most
MaxPageLen == 2
\* largest BACKFILL_PAGES_PER_RUN a behaviour is configured with
MaxBudget == 2

\* const TOP_PAGES = Number(process.env.TOP_PAGES || 3)
TOP_PAGES == 3

\* ------------------------------------------------------------ the API's data
\* tweet ids, newest first; "T90" is not among them
IdTable ==
    <<"T100", "T99", "T98", "T97", "T96", "T95", "T94", "T93", "T92", "T91",
      "T89", "T88", "T87", "T86", "T85", "T84", "T83", "T82", "T81", "T80",
      "T79", "T78", "T77", "T76">>

\* the opaque cursor that fetches page p; the first page is fetched with none
CursorTable == <<NULL, "c2", "c3", "c4", "c5", "c6", "c7">>


\* the global position of tweet j of page p
ItemIndex(p, j) == (p - 1) * api.len + j

\* t.createdAt of the tweet at global position g: tweets from api.k on are
\* older than the cutoff, and the one at api.k has an unparsable date if api.bad
RawCreatedAt(g) ==
    IF api.bad /\ g = api.k THEN "garbage"
    ELSE IF api.k > 0 /\ g >= api.k THEN "old"
    ELSE "recent"

\* one element of data.tweets
Tweet(g) ==
    [id |-> IF api.noId /\ g = 1 THEN NULL ELSE IdTable[g],
     createdAt |-> RawCreatedAt(g),
     url |-> "u", text |-> "hi",
     author |-> [id |-> "7", userName |-> "Bob", username |-> NULL]]

\* the response to getCommunityTweets for page p
Page(p) ==
    [tweets |-> [j \in 1..api.len |-> Tweet(ItemIndex(p, j))],
     has_next_page |-> IF p < api.n THEN TRUE ELSE api.end = "no_cursor",
     next_cursor |->
        IF p < api.n THEN CursorTable[p + 1]
        ELSE CASE api.end = "no_flag" -> CursorTable[p + 1]
               [] api.end = "no_cursor" -> NULL
               [] OTHER -> ""]

\* the page a cursor fetches
PageOf(cursor) == CHOOSE p \in 1..(api.n + 1) : CursorTable[p] = cursor

\* ------------------------------------------------------------ normalizer
\* String(x)
Str(x) == IF x = NULL THEN "undefined" ELSE x

\* parseCreatedAt: null for a missing or unparsable date, else the ISO instant
ParseCreatedAt(x) == IF x = NULL \/ x = "" \/ x = "garbage" THEN NULL ELSE x

\* t.author of a tweet that has none: t?.author?.x is undefined for every x
NoAuthor == [id |-> NULL, userName |-> NULL, username |-> NULL]

\* normalizeTweet
normalizeTweet(t) ==
    [tweet_id |-> Str(t.id),
     url |-> Or(t.url, NULL),
     text |-> Or(t.text, ""),
     created_at |-> ParseCreatedAt(t.createdAt),
     author_user_id |-> IF Truthy(t.author.id) THEN Str(t.author.id) ELSE NULL,
     author_username |-> Or(t.author.userName, Or(t.author.username, NULL))]

\* ------------------------------------------------------------ store
\* The table community_tweets of one community: a set of rows.  SQL NULL is
\* NULL; the empty string is a value.

\* a plain assignment f = EXCLUDED.f
MutCoalesce(new, old) == new

\* COALESCE(EXCLUDED.f, community_tweets.f)
Coalesce(new, old) == IF new /= NULL THEN new ELSE old

\* DO UPDATE SET ...: the row that replaces row `old` when `tw` conflicts with it
Merged(old, tw) ==
    [tweet_id |-> old.tweet_id,
     url |-> Coalesce(tw.url, old.url),
     text |-> Coalesce(tw.text, old.text),
     created_at |-> Coalesce(tw.created_at, old.created_at),
     author_user_id |-> Coalesce(tw.author_user_id, old.author_user_id),
     author_username |-> Coalesce(tw.author_username, old.author_username)]

\* the rows with which `tw` conflicts on (community_id, tweet_id)
Conflicts(table, tw) == {r \in table : r.tweet_id = tw.tweet_id}

\* an INSERT without the ON CONFLICT clause, on a table without the key
MutUpserted(table, tw) == table \cup {tw}

\* the table after INSERT ... ON CONFLICT (community_id, tweet_id) DO UPDATE
Upserted(table, tw) ==
    IF Conflicts(table, tw) = {} THEN table \cup {tw}
    ELSE (table \ Conflicts(table, tw)) \cup {Merged(r, tw) : r \in Conflicts(table, tw)}

\* no statement yet
NoUpsert ==
    [tw |-> [tweet_id |-> NULL, url |-> NULL, text |-> NULL, created_at |-> NULL,
             author_user_id |-> NULL, author_username |-> NULL],
     twice |-> FALSE]

\* a write held back in a transaction that the failure rolls back
MutUpsertCommunityTweet(tw) ==
    /\ community_tweets' = community_tweets
    /\ lastUpsert' = [tw |-> tw, twice |-> tw = lastUpsert.tw]

\* upsertCommunityTweet: one autocommitted statement; the history notes the
\* Post and whether it repeats the Post of the statement before
UpsertCommunityTweet(tw) ==
    /\ community_tweets' = Upserted(community_tweets, tw)
    /\ lastUpsert' = [tw |-> tw, twice |-> tw = lastUpsert.tw]

\* the tweet_ids that have a row
StoredIds == {r.tweet_id : r \in community_tweets}

\* one event of a run's history
Ev(e, v) == [e |-> e, v |-> v]

\* ------------------------------------------------------------ backfill
NoSyncState == [backfill_cursor |-> NULL, last_seen_tweet_id |-> NULL]

\* `seen` is not a local of the code: it records the Sync State row as it was
\* when the page under way was fetched
BfIdle ==
    [pc |-> "idle", cursor |-> NULL, page |-> 0, pg |-> 0, idx |-> 0,
     reachedCutoff |-> FALSE, pend |-> NULL, stop |-> "none", seen |-> NoSyncState]

\* a run is not under way
BfEnded == bf.pc \in {"idle", "done", "failed", "crashed"}

\* a check that takes a missing or unparsable date for an old one
MutBeforeCutoff(tw) == cfg.cutoffDays > 0 /\ tw.created_at /= "recent"

\* cutoffTs && tw.created_at && ts < cutoffTs
BeforeCutoff(tw) ==
    cfg.cutoffDays > 0 /\ tw.created_at /= NULL /\ tw.created_at = "old"

\* a loop that leaves out the last tweet of a page
MutBfScan(pg, i) ==
    IF i >= Len(Page(pg).tweets) THEN "end"
    ELSE IF BeforeCutoff(normalizeTweet(Page(pg).tweets[i])) THEN "cutoff"
    ELSE "upsert"

\* for (const t of tweets), from tweet i on: the page is exhausted, the tweet is
\* before the cutoff (break), or the tweet is upserted
BfScan(pg, i) ==
    IF i > Len(Page(pg).tweets) THEN "end"
    ELSE IF BeforeCutoff(normalizeTweet(Page(pg).tweets[i])) THEN "cutoff"
    ELSE "upsert"

\* a test that trusts the flag alone
MutNoNextPage(data) == ~data.has_next_page

\* !data?.has_next_page || !data?.next_cursor
NoNextPage(data) == ~data.has_next_page \/ ~Truthy(data.next_cursor)

\* a run that persists the cursor only when it stops
MutBfContinue(r, pg, i) ==
    LET what == BfScan(pg, i) IN
    IF what = "upsert" THEN [r EXCEPT !.pc = "upsert", !.pg = pg, !.idx = i]
    ELSE IF what = "cutoff"
    THEN [r EXCEPT !.pc = "setcursor", !.pg = pg, !.idx = i, !.reachedCutoff = TRUE,
                   !.pend = NULL, !.stop = "cutoff"]
    ELSE IF NoNextPage(Page(pg))
    THEN [r EXCEPT !.pc = "setcursor", !.pg = pg, !.idx = i, !.pend = NULL,
                   !.stop = "no_next"]
    ELSE IF r.page < cfg.budget
    THEN [r EXCEPT !.pc = "fetch", !.pg = pg, !.idx = i, !.page = r.page + 1,
                   !.cursor = Page(pg).next_cursor]
    ELSE [r EXCEPT !.pc = "setcursor", !.pg = pg, !.idx = i,
                   !.cursor = Page(pg).next_cursor, !.pend = Page(pg).next_cursor]

\* the locals once the loop over the tweets of page pg stands at tweet i: the
\* next awaited operation is an upsert or, after the loop, setBackfillCursor
BfContinue(r, pg, i) ==
    LET what == BfScan(pg, i) IN
    IF what = "upsert" THEN [r EXCEPT !.pc = "upsert", !.pg = pg, !.idx = i]
    ELSE IF what = "cutoff"
    THEN [r EXCEPT !.pc = "setcursor", !.pg = pg, !.idx = i, !.reachedCutoff = TRUE,
                   !.pend = NULL, !.stop = "cutoff"]
    ELSE IF NoNextPage(Page(pg))
    THEN [r EXCEPT !.pc = "setcursor", !.pg = pg, !.idx = i, !.pend = NULL,
                   !.stop = "no_next"]
    ELSE [r EXCEPT !.pc = "setcursor", !.pg = pg, !.idx = i,
                   !.cursor = Page(pg).next_cursor, !.pend = Page(pg).next_cursor]

\* always from the newest page
MutStartCursor == NULL

\* a run that falls back on the cursor the run before it last used
MutStartCursorKept == Or(ingest_state.backfill_cursor, bf.cursor)

\* let cursor = state.backfill_cursor || null
StartCursor == Or(ingest_state.backfill_cursor, NULL)

\* ------------------------------------------------------------ histories
\* The history of a run is the sequence of its effects: "req" (a page is
\* requested, with the cursor), "upsert" (a row is written, with the tweet_id),
\* "setCursor" and "setWatermark" (the sync state is written, with the value).
\* What a history should hold is stated from the API's data alone.

\* the tweet at position g was created before the configured cutoff
OldItem(g) ==
    cfg.cutoffDays > 0 /\ api.k > 0 /\ g >= api.k /\ ~(api.bad /\ g = api.k)

\* the tweet_id under which the tweet at position g is stored
StoredId(g) == IF api.noId /\ g = 1 THEN "undefined" ELSE IdTable[g]

\* the positions of page p's tweets
Positions(p) == {ItemIndex(p, j) : j \in 1..api.len}

\* the tweet_ids of page p that precede its first tweet before the cutoff:
\* what backfill stores of the page
Kept(p) ==
    LET cut == {j \in 1..api.len : OldItem(ItemIndex(p, j))}
        m == IF cut = {} THEN api.len
             ELSE (CHOOSE j \in cut : \A x \in cut : j <= x) - 1
    IN [j \in 1..m |-> StoredId(ItemIndex(p, j))]

\* all tweet_ids of page p
Whole(p) == [j \in 1..api.len |-> StoredId(ItemIndex(p, j))]

Upserts(ids) == [j \in 1..Len(ids) |-> Ev("upsert", ids[j])]

Processed(trace, p) ==
    \E i \in 1..Len(trace) :
        /\ trace[i] = Ev("req", CursorTable[p])
        /\ i + Len(Kept(p)) <= Len(trace)
        /\ SubSeq(trace, i + 1, i + Len(Kept(p))) = Upserts(Kept(p))

\* the pages a history shows processed to the end of the loop over the tweets
DonePages(trace) == {p \in 1..api.n : Processed(trace, p)}

\* the pages a history shows requested
Fetched(trace) == {p \in 1..api.n : \E i \in 1..Len(trace) : trace[i] = Ev("req", CursorTable[p])}

\* the requests of a history, and the tweet_ids of its upserts, in order
Reqs(trace) == SelectSeq(trace, LAMBDA x : x.e = "req")

UpsertIds(trace) ==
    LET u == SelectSeq(trace, LAMBDA x : x.e = "upsert") IN [i \in 1..Len(u) |-> u[i].v]

\* the position in the history of the last request before position i
LastReq(trace, i) ==
    CHOOSE j \in 1..(i - 1) :
        trace[j].e = "req" /\ \A m \in (j + 1)..(i - 1) : trace[m].e /= "req"

\* the concatenation of the sequences f[a], ..., f[b]
RECURSIVE Concat(_, _, _)
Concat(f, a, b) == IF a > b THEN <<>> ELSE f[a] \o Concat(f, a + 1, b)

\* backfill() runs from its call to its first request: getState, then the
\* first page is requested
BackfillBegin ==
    /\ BfEnded
    /\ bf' = [BfIdle EXCEPT !.pc = "fetch", !.cursor = StartCursor, !.page = 1]
    /\ prevEnd' = IF bf.pc = "crashed" THEN "crashed"
                  ELSE IF bf.pc = "done" /\ bf.stop \in {"cutoff", "no_next"} THEN "complete"
                  ELSE "ended"
    /\ prevDone' = IF bf.pc = "crashed" THEN prevDone ELSE {}
    /\ bfTrace' = <<>>
    /\ UNCHANGED <<cvars, rvars, mvars, api, cmd, cfg, ingest_state, community_tweets, lastUpsert, ing, ingTrace>>

\* the scheduler invokes the command backfill
BackfillStart == cmd = "backfill" /\ BackfillBegin

\* api.getCommunityTweets({ community_id, cursor }) returns a page
BackfillFetch ==
    /\ bf.pc = "fetch"
    /\ bfTrace' = Append(bfTrace, Ev("req", bf.cursor))
    /\ bf' = BfContinue([bf EXCEPT !.seen = ingest_state], PageOf(bf.cursor), 1)
    /\ UNCHANGED <<cvars, rvars, mvars, api, cmd, cfg, ingest_state, community_tweets, lastUpsert, prevEnd, prevDone,
                   ing, ingTrace>>

\* api.getCommunityTweets throws (network, HTTP or API error): the exception
\* unwinds backfill() and main(), and the process exits
BackfillFetchFails ==
    /\ bf.pc = "fetch"
    /\ bfTrace' = <<>>
    /\ bf' = [BfIdle EXCEPT !.pc = "failed"]
    /\ UNCHANGED <<cvars, rvars, mvars, api, cmd, cfg, ingest_state, community_tweets, lastUpsert, prevEnd, prevDone,
                   ing, ingTrace>>

\* await upsertCommunityTweet(communityId, tw), then on to the next tweet
BackfillUpsert ==
    /\ bf.pc = "upsert"
    /\ LET tw == normalizeTweet(Page(bf.pg).tweets[bf.idx]) IN
         /\ UpsertCommunityTweet(tw)
         /\ bfTrace' = Append(bfTrace, Ev("upsert", tw.tweet_id))
    /\ bf' = BfContinue(bf, bf.pg, bf.idx + 1)
    /\ UNCHANGED <<cvars, rvars, mvars, api, cmd, cfg, ingest_state, prevEnd, prevDone, ing, ingTrace>>

\* a query of the run throws (StorageError): the exception unwinds backfill()
\* and main(), and the process exits
BackfillDbFails ==
    /\ bf.pc \in {"upsert", "setcursor"}
    /\ bf' = [BfIdle EXCEPT !.pc = "failed", !.seen = bf.seen]
    /\ bfTrace' = Append(bfTrace, Ev("throw", bf.pc))
    /\ UNCHANGED <<cvars, rvars, mvars, api, cmd, cfg, ingest_state, community_tweets, lastUpsert, prevEnd,
                   prevDone, ing, ingTrace>>

\* for (let page = 1; page <= BACKFILL_PAGES_PER_RUN; page++)
MutBudgetLeft(page) == page <= cfg.budget + 1

BudgetLeft(page) == page <= cfg.budget

\* a statement that writes the row back as the run read it
MutSetBackfillCursor(state, cursor) == [bf.seen EXCEPT !.backfill_cursor = cursor]

\* UPDATE ingest_state SET backfill_cursor=$2 WHERE community_id=$1
SetBackfillCursor(state, cursor) == [state EXCEPT !.backfill_cursor = cursor]

\* await setBackfillCursor(communityId, ...): break after a cutoff or the last
\* page, else page++ and the loop test
BackfillSetCursor ==
    /\ bf.pc = "setcursor"
    /\ ingest_state' = SetBackfillCursor(ingest_state, bf.pend)
    /\ bfTrace' = Append(bfTrace, Ev("setCursor", bf.pend))
    /\ bf' = IF bf.stop /= "none" THEN [bf EXCEPT !.pc = "done"]
             ELSE IF BudgetLeft(bf.page + 1)
             THEN [bf EXCEPT !.pc = "fetch", !.page = bf.page + 1]
             ELSE [bf EXCEPT !.pc = "done", !.page = bf.page + 1, !.stop = "budget"]
    /\ UNCHANGED <<cvars, rvars, mvars, api, cmd, cfg, community_tweets, lastUpsert, prevEnd, prevDone, ing, ingTrace>>

\* the process is terminated while the run awaits an operation
BackfillCrash ==
    /\ bf.pc \in {"fetch", "upsert", "setcursor"}
    /\ bf' = [BfIdle EXCEPT !.pc = "crashed"]
    /\ prevDone' = DonePages(bfTrace)
    /\ bfTrace' = <<>>
    /\ UNCHANGED <<cvars, rvars, mvars, api, cmd, cfg, ingest_state, community_tweets, lastUpsert, prevEnd,
                   ing, ingTrace>>

\* ------------------------------------------------------------ ingest-new
IngIdle ==
    [pc |-> "idle", stopId |-> NULL, cursor |-> NULL, newLastSeen |-> NULL,
     page |-> 0, pg |-> 0, idx |-> 0, stopped |-> FALSE, stop |-> "none",
     seen |-> NoSyncState]

IngEnded == ing.pc \in {"idle", "done", "failed", "crashed"}

\* a scan that looks for the watermark on the first page only
MutIsStop(r, t) == Truthy(r.stopId) /\ Str(t.id) = r.stopId /\ r.page = 1

\* if (stopId && id === stopId)
IsStop(r, t) == Truthy(r.stopId) /\ Str(t.id) = r.stopId

\* for (let page = 1; page <= TOP_PAGES; page++)
TopLeft(page) == page <= TOP_PAGES

\* a watermark taken from the page the run stopped on
MutCandidate(r, pg) ==
    IF Len(Page(pg).tweets) > 0 /\ Truthy(Page(pg).tweets[1].id)
    THEN Str(Page(pg).tweets[1].id)
    ELSE r.newLastSeen

\* if (page === 1 && tweets[0]?.id) newLastSeen = String(tweets[0].id)
Candidate(r, pg) ==
    IF r.page = 1 /\ Len(Page(pg).tweets) > 0 /\ Truthy(Page(pg).tweets[1].id)
    THEN Str(Page(pg).tweets[1].id)
    ELSE r.newLastSeen

\* a run that persists the watermark only when it found the previous one
MutIngAfterLoop(r) ==
    IF Truthy(r.newLastSeen) /\ r.stopped THEN [r EXCEPT !.pc = "setwatermark"]
    ELSE [r EXCEPT !.pc = "done"]

\* the code after the loop over the pages: if (newLastSeen) setLastSeenTweetId
IngAfterLoop(r) ==
    IF Truthy(r.newLastSeen) THEN [r EXCEPT !.pc = "setwatermark"]
    ELSE [r EXCEPT !.pc = "done"]

\* the locals once the loop over the tweets of page pg stands at tweet i: the
\* next awaited operation is an upsert, the next page's request, or the
\* watermark's write
IngContinue(r, pg, i) ==
    IF i <= Len(Page(pg).tweets) /\ ~IsStop(r, Page(pg).tweets[i])
    THEN [r EXCEPT !.pc = "upsert", !.pg = pg, !.idx = i]
    ELSE LET q == [r EXCEPT !.pg = pg, !.idx = i] IN
         IF i <= Len(Page(pg).tweets)
         THEN IngAfterLoop([q EXCEPT !.stopped = TRUE, !.stop = "match"])
         ELSE IF NoNextPage(Page(pg))
         THEN IngAfterLoop([q EXCEPT !.stop = "no_next"])
         ELSE IF TopLeft(r.page + 1)
         THEN [q EXCEPT !.pc = "fetch", !.cursor = Page(pg).next_cursor,
                        !.page = r.page + 1]
         ELSE IngAfterLoop([q EXCEPT !.cursor = Page(pg).next_cursor,
                                     !.page = r.page + 1, !.stop = "limit"])

\* ingestNew() runs from its call to its first request: getState, then the
\* newest page is requested
IngestBegin ==
    /\ IngEnded
    /\ ing' = [IngIdle EXCEPT !.pc = "fetch",
                              !.stopId = Or(ingest_state.last_seen_tweet_id, NULL),
                              !.page = 1]
    /\ ingTrace' = <<>>
    /\ UNCHANGED <<cvars, rvars, mvars, api, cmd, cfg, ingest_state, community_tweets, lastUpsert, bf, bfTrace,
                   prevEnd, prevDone>>

\* the scheduler invokes the command ingest-new
IngestStart == cmd = "ingest-new" /\ IngestBegin

\* api.getCommunityTweets({ community_id, cursor }) returns a page
IngestFetch ==
    /\ ing.pc = "fetch"
    /\ ingTrace' = Append(ingTrace, Ev("req", ing.cursor))
    /\ LET pg == PageOf(ing.cursor) IN
         ing' = IngContinue([ing EXCEPT !.newLastSeen = Candidate(ing, pg),
                                        !.seen = ingest_state], pg, 1)
    /\ UNCHANGED <<cvars, rvars, mvars, api, cmd, cfg, ingest_state, community_tweets, lastUpsert, bf, bfTrace,
                   prevEnd, prevDone>>

\* api.getCommunityTweets throws
IngestFetchFails ==
    /\ ing.pc = "fetch"
    /\ ingTrace' = <<>>
    /\ ing' = [IngIdle EXCEPT !.pc = "failed"]
    /\ UNCHANGED <<cvars, rvars, mvars, api, cmd, cfg, ingest_state, community_tweets, lastUpsert, bf, bfTrace,
                   prevEnd, prevDone>>

\* await upsertCommunityTweet(communityId, tw), then on to the next tweet
IngestUpsert ==
    /\ ing.pc = "upsert"
    /\ LET tw == normalizeTweet(Page(ing.pg).tweets[ing.idx]) IN
         /\ UpsertCommunityTweet(tw)
         /\ ingTrace' = Append(ingTrace, Ev("upsert", tw.tweet_id))
    /\ ing' = IngContinue(ing, ing.pg, ing.idx + 1)
    /\ UNCHANGED <<cvars, rvars, mvars, api, cmd, cfg, ingest_state, bf, bfTrace, prevEnd, prevDone>>

\* a query of the run throws (StorageError)
IngestDbFails ==
    /\ ing.pc \in {"upsert", "setwatermark"}
    /\ ing' = [IngIdle EXCEPT !.pc = "failed", !.seen = ing.seen]
    /\ ingTrace' = Append(ingTrace, Ev("throw", ing.pc))
    /\ UNCHANGED <<cvars, rvars, mvars, api, cmd, cfg, ingest_state, community_tweets, lastUpsert, bf, bfTrace,
                   prevEnd, prevDone>>

\* UPDATE ingest_state SET last_seen_tweet_id=$2 WHERE community_id=$1
SetLastSeenTweetId(state, tweetId) == [state EXCEPT !.last_seen_tweet_id = tweetId]

\* await setLastSeenTweetId(communityId, newLastSeen)
IngestSetWatermark ==
    /\ ing.pc = "setwatermark"
    /\ ingest_state' = SetLastSeenTweetId(ingest_state, ing.newLastSeen)
    /\ ingTrace' = Append(ingTrace, Ev("setWatermark", ing.newLastSeen))
    /\ ing' = [ing EXCEPT !.pc = "done"]
    /\ UNCHANGED <<cvars, rvars, mvars, api, cmd, cfg, community_tweets, lastUpsert, bf, bfTrace, prevEnd, prevDone>>

\* the process is terminated while the run awaits an operation
IngestCrash ==
    /\ ing.pc \in {"fetch", "upsert", "setwatermark"}
    /\ ing' = [IngIdle EXCEPT !.pc = "crashed"]
    /\ ingTrace' = <<>>
    /\ UNCHANGED <<cvars, rvars, mvars, api, cmd, cfg, ingest_state, community_tweets, lastUpsert, bf, bfTrace,
                   prevEnd, prevDone>>

\* ------------------------------------------------------------ refresh: data
\* posts the community's table holds when a refresh command runs
MaxPosts == 5

\* const BATCH_TWEET_IDS = Number(process.env.BATCH_TWEET_IDS || 80)
BATCH_TWEET_IDS == 2

\* author_username of the posts, newest post first
AuthorTable == <<"Cy", "Bob", "Al", "bob", NULL, "dee", "Eve", "al">>

\* lower(author_username)
Lower(x) ==
    CASE x = "Cy" -> "cy"
      [] x = "Bob" -> "bob"
      [] x = "Al" -> "al"
      [] x = "Eve" -> "eve"
      [] OTHER -> x

\* the handles in the order of ORDER BY 1, with the user each belongs to and
\* the handle as the API spells it
HandleTable == <<"al", "bob", "cy", "dee", "eve">>
UserIdTable == <<"u1", "u2", "u3", "u4", "u5">>
UserNameTable == <<"Al", "Bob", "Cy", "dee", "Eve">>

\* the posts table before a refresh command: the oldest post lies outside the
\* recency window
PostRow(g) ==
    [tweet_id |-> IdTable[g], url |-> "u", text |-> "hi",
     created_at |-> IF g = MaxPosts THEN "old" ELSE "recent",
     author_user_id |-> NULL, author_username |-> AuthorTable[g]]

\* a profile object of a response: absent, or with id and userName that may be
\* missing (an empty object is present)
NoRec == [present |-> FALSE, id |-> NULL, userName |-> NULL]
Recs(j) ==
    {NoRec} \cup [present : {TRUE}, id : {NULL, UserIdTable[j]},
                  userName : {NULL, UserNameTable[j]}]

\* the bodies getUserInfo may return for the j-th handle
UserBodies(j) == [user : Recs(j), data : Recs(j), result : Recs(j)]

\* ------------------------------------------------------------ refresh: store
\* Number(x || 0), of a count that is missing or given as "5"
Num(x) == IF Truthy(x) /\ x = "5" THEN 5 ELSE 0

\* a statement that also stamps the other rows
MutMetricsUpserted(table, m) ==
    {[r EXCEPT !.updated_at = "run"] : r \in {x \in table : x.tweet_id /= Str(m.id)}}
    \cup {[tweet_id |-> Str(m.id), view_count |-> Num(m.viewCount), updated_at |-> "run"]}

\* upsertMetrics: INSERT ... ON CONFLICT (tweet_id) DO UPDATE, every column
\* overwritten, updated_at = now()
MetricsUpserted(table, m) ==
    {r \in table : r.tweet_id /= Str(m.id)}
    \cup {[tweet_id |-> Str(m.id), view_count |-> Num(m.viewCount), updated_at |-> "run"]}

\* a check of the identifier alone
MutDropped(u) == ~Truthy(u.id)

\* upsertUser: if (!user_id || !username) return
Dropped(u) == ~Truthy(u.id) \/ ~Truthy(u.userName)

\* upsertUser: INSERT ... ON CONFLICT (user_id) DO UPDATE, updated_at = now()
UserUpserted(table, u) ==
    {r \in table : r.user_id /= Str(u.id)}
    \cup {[user_id |-> Str(u.id), username |-> u.userName, updated_at |-> "run"]}

\* the profiles an earlier refresh has left
OldProfiles ==
    {[user_id |-> UserIdTable[j], username |-> UserNameTable[j], updated_at |-> "stale"] :
        j \in 1..Len(UserIdTable)}

\* ------------------------------------------------------------ refresh: commands
RfIdle ==
    [pc |-> "idle", all |-> FALSE, list |-> <<>>, i |-> 0, tweets |-> <<>>, j |-> 0,
     pend |-> NoRec]

\* a refresh command is not under way
RfEnded == rf.pc \in {"idle", "done", "failed"}

\* no refresh command is run, on empty tables
RefreshOff ==
    /\ users = {}
    /\ tweet_metrics_latest = {}
    /\ rf = RfIdle
    /\ rfTrace = <<>>

\* created_at >= now() - ($2 || ' hours')::interval
Recent(r) == r.created_at = "recent"

\* the result of refreshUsers' SELECT DISTINCT lower(author_username) ...
\* ORDER BY 1, after .filter(Boolean)
ActiveUsers ==
    SelectSeq(HandleTable,
              LAMBDA h : \E r \in community_tweets :
                            /\ r.author_username /= NULL
                            /\ Recent(r)
                            /\ Lower(r.author_username) = h)

\* tm.tweet_id IS NULL OR tm.updated_at < now() - interval '6 hours'
Eligible(id) ==
    \A r \in tweet_metrics_latest : r.tweet_id = id => r.updated_at = "stale"

\* the result of refreshMetrics' SELECT ... ORDER BY ct.created_at DESC
ToUpdate(all) ==
    SelectSeq(IdTable,
              LAMBDA id : \E r \in community_tweets :
                             /\ r.tweet_id = id
                             /\ all \/ Recent(r)
                             /\ Eligible(id))

\* chunk(arr, size)[k]
Chunk(arr, size, k) ==
    SubSeq(arr, (k - 1) * size + 1, IF k * size < Len(arr) THEN k * size ELSE Len(arr))

\* chunk(arr, size).length
Chunks(arr, size) == (Len(arr) + size - 1) \div size

\* the command is invoked: its SELECT is awaited
RefreshStart ==
    /\ cmd \in {"refresh-users", "refresh-metrics"}
    /\ rf.pc = "idle"
    /\ \E all \in BOOLEAN :
          /\ cmd = "refresh-users" => ~all
          /\ rf' = [RfIdle EXCEPT !.pc = "select", !.all = all]
    /\ rfTrace' = <<>>
    /\ UNCHANGED <<cvars, dvars, mvars, users, tweet_metrics_latest>>

\* the SELECT throws: the exception unwinds the command and main()
RefreshSelectFails ==
    /\ rf.pc = "select"
    /\ rf' = [rf EXCEPT !.pc = "failed"]
    /\ rfTrace' = Append(rfTrace, Ev("throw", "select"))
    /\ UNCHANGED <<cvars, dvars, mvars, users, tweet_metrics_latest>>

\* refreshUsers: the loop goes to the next handle, or ends
RuNext(r) ==
    IF r.i < Len(r.list) THEN [r EXCEPT !.pc = "fetch", !.i = r.i + 1, !.pend = NoRec]
    ELSE [r EXCEPT !.pc = "done", !.pend = NoRec]

\* refreshUsers: the handles are selected, the first one is requested
RuSelected ==
    /\ cmd = "refresh-users"
    /\ rf.pc = "select"
    /\ rf' = RuNext([rf EXCEPT !.list = ActiveUsers])
    /\ UNCHANGED <<cvars, dvars, mvars, users, tweet_metrics_latest, rfTrace>>

\* the handle under way
Handle == rf.list[rf.i]

\* the position of handle h in the order of handles
HandleIndex(h) == CHOOSE j \in 1..Len(HandleTable) : HandleTable[j] = h

\* if (data?.user) ... else if (data?.data) ... else if (data?.result) ...:
\* the object given to upsertUser, if any
Picked(data) ==
    IF data.user.present THEN data.user
    ELSE IF data.data.present THEN data.data
    ELSE data.result

\* refreshUsers after getUserInfo returned: upsertUser returns at once for no
\* object or a dropped one, else its INSERT is awaited
RuAfterFetch(r, u) ==
    IF ~u.present \/ Dropped(u) THEN RuNext(r)
    ELSE [r EXCEPT !.pc = "upsert", !.pend = u]

\* what the history notes of a response: the object picked, by what it holds
RuSeen(u) ==
    IF ~u.present THEN <<>>
    ELSE IF u.userName = NULL THEN <<Ev("nohandle", Handle)>>
    ELSE IF u.id = NULL THEN <<Ev("noid", Handle)>>
    ELSE <<Ev("record", u.id)>>

\* api.getUserInfo(username) returns
RuFetch ==
    /\ cmd = "refresh-users"
    /\ rf.pc = "fetch"
    /\ \E data \in UserBodies(HandleIndex(Handle)) :
          /\ rf' = RuAfterFetch(rf, Picked(data))
          /\ rfTrace' = rfTrace \o <<Ev("req", Handle)>> \o RuSeen(Picked(data))
    /\ UNCHANGED <<cvars, dvars, mvars, users, tweet_metrics_latest>>

\* a driver without the try block
MutRuCaught(r) == [r EXCEPT !.pc = "failed", !.pend = NoRec]

\* catch (e) { console.warn(...) }: on to the next handle
RuCaught(r) == RuNext(r)

\* api.getUserInfo(username) throws inside the try block
RuFetchFails ==
    /\ cmd = "refresh-users"
    /\ rf.pc = "fetch"
    /\ rfTrace' = rfTrace \o <<Ev("req", Handle), Ev("throw", "fetch")>>
    /\ rf' = RuCaught(rf)
    /\ UNCHANGED <<cvars, dvars, mvars, users, tweet_metrics_latest>>

\* the INSERT of upsertUser is done
RuUpsert ==
    /\ cmd = "refresh-users"
    /\ rf.pc = "upsert"
    /\ users' = UserUpserted(users, rf.pend)
    /\ rfTrace' = Append(rfTrace, Ev("upsert", Str(rf.pend.id)))
    /\ rf' = RuNext(rf)
    /\ UNCHANGED <<cvars, dvars, mvars, tweet_metrics_latest>>

\* the INSERT of upsertUser throws (StorageError) inside the same try block
RuUpsertFails ==
    /\ cmd = "refresh-users"
    /\ rf.pc = "upsert"
    /\ rfTrace' = Append(rfTrace, Ev("throw", "upsert"))
    /\ rf' = RuCaught(rf)
    /\ UNCHANGED <<cvars, dvars, mvars, users, tweet_metrics_latest>>

\* refreshMetrics: the loop goes to the next tweet of the response, to the
\* next group, or ends
RmNext(r) ==
    IF r.j < Len(r.tweets) THEN [r EXCEPT !.pc = "upsert", !.j = r.j + 1]
    ELSE IF r.i < Chunks(r.list, BATCH_TWEET_IDS)
    THEN [r EXCEPT !.pc = "fetch", !.i = r.i + 1, !.tweets = <<>>, !.j = 0]
    ELSE [r EXCEPT !.pc = "done", !.tweets = <<>>, !.j = 0]

\* refreshMetrics: the ids are selected; if (ids.length === 0) return, else
\* the first group is requested
RmSelected ==
    /\ cmd = "refresh-metrics"
    /\ rf.pc = "select"
    /\ rf' = RmNext([rf EXCEPT !.list = ToUpdate(rf.all)])
    /\ UNCHANGED <<cvars, dvars, mvars, users, tweet_metrics_latest, rfTrace>>

\* the group under way
Group == Chunk(rf.list, BATCH_TWEET_IDS, rf.i)

\* the responses to a request for `group`: the tweet objects of any of the
\* requested ids, in the order requested, with or without a view count
MetricBodies(group) ==
    {SelectSeq([k \in 1..Len(group) |->
                   [id |-> group[k], viewCount |-> IF group[k] = IdTable[1] THEN NULL ELSE "5"]],
               LAMBDA t : t.id \in S) : S \in SUBSET {group[k] : k \in 1..Len(group)}}

\* api.getTweetsByIds(group) returns
RmFetch ==
    /\ cmd = "refresh-metrics"
    /\ rf.pc = "fetch"
    /\ \E tweets \in MetricBodies(Group) :
          /\ rf' = RmNext([rf EXCEPT !.tweets = tweets, !.j = 0])
          /\ rfTrace' = rfTrace \o <<Ev("req", Group[1])>>
                                \o [k \in 1..Len(tweets) |-> Ev("record", tweets[k].id)]
    /\ UNCHANGED <<cvars, dvars, mvars, users, tweet_metrics_latest>>

\* api.getTweetsByIds(group) throws: the exception unwinds the command
RmFetchFails ==
    /\ cmd = "refresh-metrics"
    /\ rf.pc = "fetch"
    /\ rfTrace' = rfTrace \o <<Ev("req", Group[1]), Ev("throw", "fetch")>>
    /\ rf' = [rf EXCEPT !.pc = "failed"]
    /\ UNCHANGED <<cvars, dvars, mvars, users, tweet_metrics_latest>>

\* await upsertMetrics(t)
RmUpsert ==
    /\ cmd = "refresh-metrics"
    /\ rf.pc = "upsert"
    /\ tweet_metrics_latest' = MetricsUpserted(tweet_metrics_latest, rf.tweets[rf.j])
    /\ rfTrace' = Append(rfTrace, Ev("upsert", Str(rf.tweets[rf.j].id)))
    /\ rf' = RmNext(rf)
    /\ UNCHANGED <<cvars, dvars, mvars, users>>

\* upsertMetrics throws (StorageError): the exception unwinds the command
RmUpsertFails ==
    /\ cmd = "refresh-metrics"
    /\ rf.pc = "upsert"
    /\ rfTrace' = Append(rfTrace, Ev("throw", "upsert"))
    /\ rf' = [rf EXCEPT !.pc = "failed"]
    /\ UNCHANGED <<cvars, dvars, mvars, users, tweet_metrics_latest>>

RefreshNext ==
    \/ RefreshStart
    \/ RefreshSelectFails
    \/ RuSelected
    \/ RuFetch
    \/ RuFetchFails
    \/ RuUpsert
    \/ RuUpsertFails
    \/ RmSelected
    \/ RmFetch
    \/ RmFetchFails
    \/ RmUpsert
    \/ RmUpsertFails

\* the database when a refresh command is invoked: some of the posts, profiles
\* from an earlier refresh or none, and for every post no snapshot, a stale
\* one or one refreshed within the last six hours
RefreshInit ==
    /\ cmd \in {"refresh-users", "refresh-metrics"}
    /\ api = [n |-> 1, len |-> 0, k |-> 0, bad |-> FALSE, noId |-> FALSE, end |-> "no_flag"]
    /\ cfg = [cutoffDays |-> 0, budget |-> 1]
    /\ ingest_state = NoSyncState
    /\ \E S \in SUBSET (1..MaxPosts) :
          /\ cmd = "refresh-metrics" => S = 1..MaxPosts
          /\ community_tweets = {PostRow(g) : g \in S}
    /\ bf = BfIdle
    /\ bfTrace = <<>>
    /\ prevEnd = "ended"
    /\ prevDone = {}
    /\ ing = IngIdle
    /\ ingTrace = <<>>
    /\ lastUpsert = NoUpsert
    /\ users \in {{}, OldProfiles}
    /\ \E f \in [1..MaxPosts -> {"none", "stale", "fresh"}] :
          /\ cmd = "refresh-users" => \A g \in 1..MaxPosts : f[g] = "none"
          /\ tweet_metrics_latest =
                {[tweet_id |-> IdTable[g], view_count |-> 1, updated_at |-> f[g]] :
                    g \in {x \in 1..MaxPosts : f[x] /= "none"}}
    /\ rf = RfIdle
    /\ rfTrace = <<>>

\* ------------------------------------------------------------ sync-members
\* how many page requests of one run the history counts
MaxRequests == 5

\* the member at global position g of the listing
Member(g) ==
    [present |-> TRUE,
     id |-> UserIdTable[((g - 1) % Len(UserIdTable)) + 1],
     userName |-> UserNameTable[((g - 1) % Len(UserNameTable)) + 1]]

\* the cursor that fetches page p of the listing when given explicitly
MemberCursor(p) == IF p = 1 THEN "c1" ELSE CursorTable[p]

\* the response to getCommunityMembers for page p: with api.end = "repeat" the
\* last page reports a next page under the cursor that fetched it
MemberPage(p) ==
    [members |-> [j \in 1..api.len |-> Member(ItemIndex(p, j))],
     has_next_page |-> IF p < api.n THEN TRUE ELSE api.end \in {"no_cursor", "repeat"},
     next_cursor |->
        IF p < api.n THEN CursorTable[p + 1]
        ELSE CASE api.end = "no_flag" -> CursorTable[p + 1]
               [] api.end = "no_cursor" -> NULL
               [] api.end = "repeat" -> MemberCursor(p)
               [] OTHER -> ""]

\* the page a cursor fetches
MemberPageOf(cursor) == IF cursor = "c1" THEN 1 ELSE PageOf(cursor)

\* INSERT INTO community_members ... ON CONFLICT (community_id, user_id) DO
\* UPDATE SET username, updated_at = now(), with [String(m.id), m.userName]
MemberUpserted(table, m) ==
    {r \in table : r.user_id /= Str(m.id)}
    \cup {[user_id |-> Str(m.id), username |-> m.userName, updated_at |-> "run"]}

\* `reqs` is not a local of the code: it counts the pages the run has
\* requested, up to MaxRequests.  The code's `total` is only logged.
SmIdle == [pc |-> "idle", cursor |-> NULL, pg |-> 0, idx |-> 0, reqs |-> 0]

\* no members-sync is run, on an empty table
MembersOff ==
    /\ community_members = {}
    /\ sm = SmIdle

\* a loop with the page budget of ingest-new
MutSmContinue(r, pg, i) ==
    IF i <= Len(MemberPage(pg).members)
    THEN [r EXCEPT !.pc = "upsertUser", !.pg = pg, !.idx = i]
    ELSE IF NoNextPage(MemberPage(pg)) \/ r.reqs >= TOP_PAGES
    THEN [r EXCEPT !.pc = "done", !.pg = pg, !.idx = i]
    ELSE [r EXCEPT !.pc = "fetch", !.pg = pg, !.idx = i,
                   !.cursor = MemberPage(pg).next_cursor]

\* the locals once the loop over the members of page pg stands at member i: the
\* next awaited operation is upsertUser or, after the loop, the next page's
\* request unless the page reports none (break)
SmContinue(r, pg, i) ==
    IF i <= Len(MemberPage(pg).members)
    THEN [r EXCEPT !.pc = "upsertUser", !.pg = pg, !.idx = i]
    ELSE IF NoNextPage(MemberPage(pg))
    THEN [r EXCEPT !.pc = "done", !.pg = pg, !.idx = i]
    ELSE [r EXCEPT !.pc = "fetch", !.pg = pg, !.idx = i,
                   !.cursor = MemberPage(pg).next_cursor]

\* syncMembers() is called: let cursor = null; while (true)
SmStart ==
    /\ cmd = "sync-members"
    /\ sm.pc = "idle"
    /\ sm' = [SmIdle EXCEPT !.pc = "fetch"]
    /\ UNCHANGED <<cvars, dvars, rvars, community_members>>

\* api.getCommunityMembers({ community_id, cursor }) returns a page
SmFetch ==
    /\ sm.pc = "fetch"
    /\ sm' = SmContinue([sm EXCEPT !.reqs = IF @ < MaxRequests THEN @ + 1 ELSE @],
                        MemberPageOf(sm.cursor), 1)
    /\ UNCHANGED <<cvars, dvars, rvars, community_members>>

\* api.getCommunityMembers throws: the exception unwinds syncMembers()
SmFetchFails ==
    /\ sm.pc = "fetch"
    /\ sm' = [sm EXCEPT !.pc = "failed"]
    /\ UNCHANGED <<cvars, dvars, rvars, community_members>>

\* await upsertUser(m)
SmUpsertUser ==
    /\ sm.pc = "upsertUser"
    /\ LET m == MemberPage(sm.pg).members[sm.idx] IN
         users' = IF Dropped(m) THEN users ELSE UserUpserted(users, m)
    /\ sm' = [sm EXCEPT !.pc = "insert"]
    /\ UNCHANGED <<cvars, dvars, tweet_metrics_latest, rf, rfTrace, community_members>>

\* await q(INSERT INTO community_members ...), then on to the next member
SmInsertMember ==
    /\ sm.pc = "insert"
    /\ community_members' = MemberUpserted(community_members, MemberPage(sm.pg).members[sm.idx])
    /\ sm' = SmContinue(sm, sm.pg, sm.idx + 1)
    /\ UNCHANGED <<cvars, dvars, rvars>>

\* a query of the run throws (StorageError): the exception unwinds syncMembers()
SmDbFails ==
    /\ sm.pc \in {"upsertUser", "insert"}
    /\ sm' = [sm EXCEPT !.pc = "failed"]
    /\ UNCHANGED <<cvars, dvars, rvars, community_members>>

\* the steps the event loop takes once the awaited operation has settled
SmProgress == SmFetch \/ SmUpsertUser \/ SmInsertMember

MembersNext ==
    \/ SmStart
    \/ SmFetch
    \/ SmFetchFails
    \/ SmUpsertUser
    \/ SmInsertMember
    \/ SmDbFails

\* the member listings the API may serve
MemberApis ==
    [n : 1..MaxPages, len : {0, MaxPageLen}, k : {0}, bad : {FALSE}, noId : {FALSE},
     end : {"no_flag", "no_cursor", "empty_cursor", "repeat"}]

MembersInit ==
    /\ api \in MemberApis
    /\ cmd = "sync-members"
    /\ cfg = [cutoffDays |-> 0, budget |-> 1]
    /\ ingest_state = NoSyncState
    /\ community_tweets = {}
    /\ bf = BfIdle
    /\ bfTrace = <<>>
    /\ prevEnd = "ended"
    /\ prevDone = {}
    /\ ing = IngIdle
    /\ ingTrace = <<>>
    /\ lastUpsert = NoUpsert
    /\ users \in {{}, OldProfiles}
    /\ tweet_metrics_latest = {}
    /\ rf = RfIdle
    /\ rfTrace = <<>>
    /\ community_members \in {{}, {[user_id |-> "u1", username |-> "Al", updated_at |-> "stale"]}}
    /\ sm = SmIdle

\* ------------------------------------------------------------ specifications
\* the histories the API may serve
Apis ==
    {a \in [n : 1..MaxPages, len : {0, MaxPageLen}, k : 0..(MaxPages * MaxPageLen),
            bad : BOOLEAN, noId : BOOLEAN, end : {"no_flag", "no_cursor", "empty_cursor"}] :
        /\ a.k <= a.n * a.len
        /\ a.bad => a.k > 0
        /\ a.noId => a.len > 0}

\* a database on which no command has run yet, but for a watermark that an
\* earlier ingest-new may have left: the head of that time, which may since
\* have left the first pages ("T90")
DriverInit ==
    /\ api \in Apis
    /\ cmd \in {"backfill", "ingest-new"}
    /\ cfg \in [cutoffDays : 0..1, budget : 1..MaxBudget]
    /\ cmd = "ingest-new" => (cfg.cutoffDays = 0 /\ cfg.budget = 1 /\ api.k = 0)
    /\ cmd = "backfill" => (~api.noId /\ (cfg.cutoffDays = 0 => api.k <= 1))
    /\ ingest_state \in
         [backfill_cursor : {NULL},
          last_seen_tweet_id : IF cmd = "backfill" THEN {NULL}
                               ELSE {NULL, "T90"} \cup {IdTable[g] : g \in 1..(api.n * api.len)}]
    /\ community_tweets = {}
    /\ bf = BfIdle
    /\ bfTrace = <<>>
    /\ prevEnd = "ended"
    /\ prevDone = {}
    /\ ing = IngIdle
    /\ ingTrace = <<>>
    /\ lastUpsert = NoUpsert

DriverNext ==
    \/ BackfillStart
    \/ BackfillFetch
    \/ BackfillFetchFails
    \/ BackfillUpsert
    \/ BackfillDbFails
    \/ BackfillSetCursor
    \/ BackfillCrash
    \/ IngestStart
    \/ IngestFetch
    \/ IngestFetchFails
    \/ IngestUpsert
    \/ IngestDbFails
    \/ IngestSetWatermark
    \/ IngestCrash

\* two processes at once on one community and one database: one runs backfill,
\* the other ingest-new
PairBackfillStart == cmd = "backfill | ingest-new" /\ bf.pc = "idle" /\ BackfillBegin

PairIngestStart == cmd = "backfill | ingest-new" /\ ing.pc = "idle" /\ IngestBegin

\* the Sync State row may hold the cursor an earlier backfill run left when its
\* budget ran out, and the watermark of an earlier ingest-new run
PairInit ==
    /\ api \in {a \in Apis : ~a.bad /\ ~a.noId /\ a.len > 0 /\ a.n >= 2}
    /\ cmd = "backfill | ingest-new"
    /\ cfg \in [cutoffDays : 0..1, budget : 1..MaxBudget]
    /\ cfg.cutoffDays = 0 => api.k = 0
    /\ ingest_state \in
         [backfill_cursor : {NULL, "c2"},
          last_seen_tweet_id : {NULL, "T90", IdTable[1], IdTable[api.len + 1]}]
    /\ community_tweets = {}
    /\ bf = BfIdle
    /\ bfTrace = <<>>
    /\ prevEnd = "ended"
    /\ prevDone = {}
    /\ ing = IngIdle
    /\ ingTrace = <<>>
    /\ lastUpsert = NoUpsert

PairNext ==
    \/ PairBackfillStart
    \/ BackfillFetch
    \/ BackfillUpsert
    \/ BackfillSetCursor
    \/ PairIngestStart
    \/ IngestFetch
    \/ IngestUpsert
    \/ IngestSetWatermark

\* the tweets a page may hold for two posts: any field may be missing, the
\* date may be unparsable, the author's handle may come under either key
RawTweets ==
    [id : {"T100", "T99"},
     createdAt : {NULL, "garbage", "recent"},
     url : {NULL, "u"},
     text : {NULL, "hi"},
     author : {NoAuthor,
               [id |-> "7", userName |-> "Bob", username |-> NULL],
               [id |-> NULL, userName |-> NULL, username |-> "bob"]}]

\* the loop body of backfill() and ingestNew() for one tweet of a page, whatever
\* the page and however often it is replayed: normalizeTweet, then
\* upsertCommunityTweet
UpsertTweet(t) ==
    /\ UpsertCommunityTweet(normalizeTweet(t))
    /\ UNCHANGED <<cvars, rvars, mvars, api, cmd, cfg, ingest_state, bf, bfTrace, prevEnd,
                   prevDone, ing, ingTrace>>

StoreNext == \E t \in RawTweets : UpsertTweet(t)

\* the client alone, with no command running
ClientOnly ==
    /\ api = [n |-> 1, len |-> 0, k |-> 0, bad |-> FALSE, noId |-> FALSE, end |-> "no_flag"]
    /\ cmd = "help"
    /\ cfg = [cutoffDays |-> 0, budget |-> 1]
    /\ ingest_state = [backfill_cursor |-> NULL, last_seen_tweet_id |-> NULL]
    /\ community_tweets = {}
    /\ bf = BfIdle
    /\ bfTrace = <<>>
    /\ prevEnd = "ended"
    /\ prevDone = {}
    /\ ing = IngIdle
    /\ ingTrace = <<>>
    /\ lastUpsert = NoUpsert

InitClientOnly == ClientInit /\ ClientOnly /\ RefreshOff /\ MembersOff

SpecClient == InitClientOnly /\ [][ClientNext]_vars

\* the client under overlapping calls
InitOverlap == InitClientOnly

SpecOverlap == InitOverlap /\ [][OverlapNext]_vars

\* the refresh commands, each request through the client summarised by its
\* outcome
InitRefresh == ClientInit /\ minIntervalMs = MaxInterval /\ RefreshInit /\ MembersOff

SpecRefresh == InitRefresh /\ [][RefreshNext]_vars

\* the posts table under any sequence of upserts
InitStore == InitClientOnly

SpecStore == InitStore /\ [][StoreNext]_vars

\* members-sync, each request through the client summarised by its outcome; a
\* run that awaits an operation which settles is resumed
InitMembers == ClientInit /\ minIntervalMs = MaxInterval /\ MembersInit

SpecMembers == InitMembers /\ [][MembersNext]_vars /\ WF_vars(SmProgress)

\* backfill and ingest-new side by side, their steps interleaved in any order
InitPair == ClientInit /\ minIntervalMs = MaxInterval /\ PairInit /\ RefreshOff /\ MembersOff

SpecPair == InitPair /\ [][PairNext]_vars

\* the drivers, each request through the client summarised by its outcome (a
\* page or an exception); the client's own state stays as constructed
Init == ClientInit /\ minIntervalMs = MaxInterval /\ DriverInit /\ RefreshOff /\ MembersOff

Spec == Init /\ [][DriverNext]_vars

\* ------------------------------------------------------------ claims: client

\* the calls that have received a response they do not retry
Final(c) == cpc[c] = "settled"

(* C1: through one client used by non-overlapping get() calls, the starts of
   any two consecutive outbound HTTP requests (first attempts and re-issued
   requests after 429 alike, whatever the endpoint) are at least minIntervalMs
   apart; hence the k requests issued so far span at least
   (k-1) * minIntervalMs, and so do N calls, which issue at least N requests. *)
C1_Pacing ==
    /\ reqCount >= 2 => lastReqTs - prevReqTs >= minIntervalMs
    /\ reqCount >= 1 => lastReqTs - firstReqTs >= (reqCount - 1) * minIntervalMs

\* a second call had to wait in _pace and went out exactly one interval later,
\* after the first call had been retried on 429
C1_Witness ==
    /\ calls = 2
    /\ reqCount >= 3
    /\ cpc[1] = "in_flight" /\ attempt[1] = 1
    /\ lastReqTs - prevReqTs = minIntervalMs

(* C5: on HTTP 429 one get() call issues at most retries+1 HTTP requests; a
   call whose last response is still 429 has used all retries+1 requests and
   fails with an error, returning no data. *)
C5_RetryBound ==
    \A c \in Calls :
        /\ callReqs[c] <= retries[c] + 1
        /\ (Final(c) /\ res[c] = 429) =>
              /\ callReqs[c] = retries[c] + 1
              /\ out[c].kind = "throw"
              /\ out[c].data = NoData

\* a call given two retries has failed on its third 429
C5_Witness ==
    \E c \in Calls :
        Final(c) /\ res[c] = 429 /\ retries[c] = 2 /\ callReqs[c] = 3 /\ out[c].kind = "throw"

\* the requests a call has under way or is waiting to issue
Pending(c) == cpc[c] \in {"pace_sleep", "in_flight", "read_429", "backoff_sleep"}

\* a non-success status other than 429
HardFailure(status) == status /= NoRes /\ ~Ok(status) /\ status /= 429

(* C6 as stated: a non-success status other than 429 fails the call at once
   with an error that carries the status and the body's message. *)
C6_Original ==
    \A c \in Calls :
        (Final(c) /\ HardFailure(res[c])) =>
            /\ out[c].kind = "throw"
            /\ out[c].message[1] = HttpText(res[c])

(* C6 as amended: a non-success status other than 429 fails the call at once:
   no further request is issued by it and no data is returned.  The error's
   message is the body's message field, else its msg field, and only when the
   body has neither, the text "HTTP <status>"; the endpoint path follows. *)
C6_HardFailure ==
    \A c \in Calls :
        /\ HardFailure(res[c]) => ~Pending(c)
        /\ (Final(c) /\ HardFailure(res[c])) =>
              /\ out[c].kind = "throw"
              /\ out[c].data = NoData
              /\ callReqs[c] = attempt[c]
              /\ out[c].message[2] = cpath[c]
              /\ out[c].message[1] =
                    IF body[c].kind = "json" /\ body[c].message \notin {NULL, ""}
                    THEN body[c].message
                    ELSE IF body[c].kind = "json" /\ body[c].msg \notin {NULL, ""}
                    THEN body[c].msg
                    ELSE HttpText(res[c])

\* a 404 whose body has a message: the error carries the message, not the status
C6_Witness ==
    \E c \in Calls :
        /\ Final(c) /\ res[c] = 404
        /\ body[c].kind = "json" /\ body[c].message = "bad request"
        /\ out[c].kind = "throw" /\ out[c].message[1] = "bad request"

\* the status field of a 2xx body, NULL when the body has none
BodyStatus(c) == IF body[c].kind = "json" THEN body[c].status ELSE NULL

(* C7 as stated: a 2xx response whose body has a status field other than
   "success" fails the call; a 2xx body is returned only if its status field
   is "success" or absent. *)
C7_Original ==
    \A c \in Calls :
        (Final(c) /\ Ok(res[c])) =>
            (out[c].kind = "return" <=> BodyStatus(c) \in {NULL, "success"})

(* C7 as amended: a 2xx response whose body has a truthy status field other
   than "success" fails the call with an error instead of returning the body;
   a 2xx body is returned, as parsed, exactly when its status field is
   "success", absent or falsy (the empty string here). *)
C7_Envelope ==
    \A c \in Calls :
        (Final(c) /\ Ok(res[c])) =>
            /\ out[c].kind = "return" <=> BodyStatus(c) \in {NULL, "", "success"}
            /\ out[c].kind = "throw" <=> BodyStatus(c) \notin {NULL, "", "success"}
            /\ out[c].kind = "return" => out[c].data.status = BodyStatus(c)
            /\ out[c].kind = "throw" => out[c].data = NoData

\* a 200 with status "error" has failed the call
C7_Witness ==
    \E c \in Calls :
        Final(c) /\ res[c] = 200 /\ BodyStatus(c) = "error" /\ out[c].kind = "throw"

\* ------------------------------------------------------------ claims: drivers

\* in history `trace`, the events between the last request before position i
\* and position i are exactly the upserts of `ids(p)`, p the page requested
UpsertsSince(trace, i, ids(_)) ==
    LET j == LastReq(trace, i) IN
    SubSeq(trace, j + 1, i - 1) = Upserts(ids(PageOf(trace[j].v)))

(* C2: in a backfill run every write of the persisted cursor comes after the
   upserts of every tweet of the page just fetched, or of every tweet before
   the first one older than the cutoff: between the page's request and the
   write lie exactly these upserts, and while the write is pending the rows are
   in the table. *)
C2_CursorAfterPage ==
    /\ \A i \in 1..Len(bfTrace) :
         bfTrace[i].e = "setCursor" => UpsertsSince(bfTrace, i, Kept)
    /\ bf.pc = "setcursor" =>
         \A j \in 1..Len(Kept(bf.pg)) : Kept(bf.pg)[j] \in StoredIds

\* the cursor of a full second page has been written
C2_Witness ==
    /\ Len(bfTrace) >= 2 * (2 + MaxPageLen)
    /\ bfTrace[Len(bfTrace)].e = "setCursor"
    /\ Len(UpsertIds(bfTrace)) = 2 * MaxPageLen

\* the page the persisted cursor fetches
CursorPage == PageOf(ingest_state.backfill_cursor)

(* C3: a backfill run starts at the persisted cursor, and a persisted cursor
   never lies beyond a page whose tweets are not all stored; so a run that
   follows a terminated run skips no page, and it requests at most one of the
   pages the terminated run had already processed. *)
C3_Resume ==
    /\ ingest_state.backfill_cursor /= NULL =>
         \A q \in 1..(CursorPage - 1) : \A g \in Positions(q) : StoredId(g) \in StoredIds
    /\ (Len(bfTrace) > 0 /\ \A i \in 1..Len(bfTrace) : bfTrace[i].e /= "setCursor") =>
         bfTrace[1] = Ev("req", ingest_state.backfill_cursor)
    /\ prevEnd = "crashed" => Cardinality(Fetched(bfTrace) \cap prevDone) <= 1

\* a run was terminated after the upserts of its second page; the next run
\* started at that page again and has gone on to the third
C3_Witness ==
    /\ prevEnd = "crashed"
    /\ Cardinality(prevDone) = 2
    /\ Cardinality(Fetched(bfTrace) \cap prevDone) = 1
    /\ Cardinality(Fetched(bfTrace)) = 2

\* every request after the first directly follows a write of `commit`
CommitBeforeRequest(trace, commit) ==
    \A i \in 2..Len(trace) : trace[i].e = "req" => trace[i - 1].e = commit

(* C4 as stated: in backfill and in ingest-new the request for page N+1 is
   issued only after page N's cursor or watermark update has been committed. *)
C4_Original ==
    /\ CommitBeforeRequest(bfTrace, "setCursor")
    /\ CommitBeforeRequest(ingTrace, "setWatermark")

(* C4 as amended: in backfill the request for page N+1 comes after the upserts
   of page N's tweets and directly after the write of page N's cursor, which it
   uses.  In ingest-new it comes directly after the upserts of all of page N's
   tweets; the watermark is written once, as the last effect of the run, after
   the last request. *)
C4_PageOrder ==
    /\ \A i \in 2..Len(bfTrace) :
         bfTrace[i].e = "req" =>
            /\ bfTrace[i - 1] = Ev("setCursor", bfTrace[i].v)
            /\ UpsertsSince(bfTrace, i - 1, Whole)
    /\ \A i \in 2..Len(ingTrace) :
         ingTrace[i].e = "req" => UpsertsSince(ingTrace, i, Whole)
    /\ \A i \in 1..Len(ingTrace) :
         ingTrace[i].e = "setWatermark" => (i = Len(ingTrace) /\ ing.pc = "done")

\* an ingest-new run has requested three pages and then written the watermark
C4_Witness ==
    /\ Len(Reqs(ingTrace)) = 3
    /\ Len(UpsertIds(ingTrace)) = 3 * MaxPageLen
    /\ ingTrace[Len(ingTrace)].e = "setWatermark"

\* the page the run started at, and the last page it requested
FirstPage(trace) == PageOf(Reqs(trace)[1].v)
LastPage(trace) == PageOf(Reqs(trace)[Len(Reqs(trace))].v)

\* the positions, from page s on, of the tweets older than the cutoff
OldFrom(s) == {g \in ((s - 1) * api.len + 1)..(api.n * api.len) : OldItem(g)}

\* the first of them: item K
FirstOld(s) == CHOOSE g \in OldFrom(s) : \A x \in OldFrom(s) : g <= x

\* the page of the tweet at position g
PageAt(g) == ((g - 1) \div api.len) + 1

\* what C8 says of a run that started at page s, K the first tweet of the
\* stream older than the cutoff: the tweets before K are upserted, in order,
\* K and the later tweets of its page are not, cursor = null is persisted as
\* the last effect and no page after K's is requested
StoppedAtCutoff(s, K) ==
    /\ UpsertIds(bfTrace) = [i \in 1..(K - 1 - (s - 1) * api.len) |->
                                StoredId((s - 1) * api.len + i)]
    /\ StoredId(K) \notin {UpsertIds(bfTrace)[i] : i \in 1..Len(UpsertIds(bfTrace))}
    /\ ingest_state.backfill_cursor = NULL
    /\ bfTrace[Len(bfTrace)] = Ev("setCursor", NULL)
    /\ Len(Reqs(bfTrace)) = PageAt(K) - s + 1
    /\ bf.stop = "cutoff"

(* C8 as stated: a backfill run with a cutoff configured, in whose page stream
   item K is the first tweet older than the cutoff, upserts every tweet before
   K, neither K nor a later tweet of that page, persists cursor = null and
   requests no further page. *)
C8_Original ==
    (bf.pc = "done" /\ cfg.cutoffDays > 0 /\ OldFrom(FirstPage(bfTrace)) /= {}) =>
        StoppedAtCutoff(FirstPage(bfTrace), FirstOld(FirstPage(bfTrace)))

(* C8 as amended: the same, provided item K lies on one of the
   BACKFILL_PAGES_PER_RUN pages the run may request from its start cursor; a
   run whose budget ends before K's page stops there with the next cursor
   persisted. *)
C8_Cutoff ==
    (bf.pc = "done" /\ cfg.cutoffDays > 0 /\ OldFrom(FirstPage(bfTrace)) /= {}) =>
        LET s == FirstPage(bfTrace)
            K == FirstOld(s)
        IN IF PageAt(K) < s + cfg.budget
           THEN StoppedAtCutoff(s, K)
           ELSE /\ bf.stop = "budget"
                /\ ingest_state.backfill_cursor = CursorTable[s + cfg.budget]

\* item K is the first tweet of the second page of a run: the first page is
\* stored, nothing of the second
C8_Witness ==
    /\ bf.pc = "done" /\ bf.stop = "cutoff"
    /\ cfg.cutoffDays > 0
    /\ Len(Reqs(bfTrace)) = 2
    /\ Len(UpsertIds(bfTrace)) = MaxPageLen
    /\ ingest_state.backfill_cursor = NULL

(* C9: a backfill run issues at most BACKFILL_PAGES_PER_RUN page requests and
   at most (tweets per page + 2) effects per request, so it ends.  A run that
   has ended without an exception ended on exactly one of: cutoff (its last
   page holds a tweet older than the cutoff), no next page (its last page is
   the last of the history), or budget (neither, and the budget is used up);
   in the last case the persisted cursor is the last page's next_cursor, which
   is where the following run starts: the page after the last one processed. *)
C9_Termination ==
    /\ Len(Reqs(bfTrace)) <= cfg.budget
    /\ Len(bfTrace) <= cfg.budget * (api.len + 2)
    /\ bf.pc = "done" =>
         LET L == LastPage(bfTrace)
             old == \E g \in Positions(L) : OldItem(g)
         IN /\ bf.stop \in {"cutoff", "no_next", "budget"}
            /\ bf.stop = "cutoff" <=> old
            /\ bf.stop = "no_next" <=> (~old /\ L = api.n)
            /\ bf.stop = "budget" <=> (~old /\ L < api.n)
            /\ bf.stop = "budget" =>
                 /\ Len(Reqs(bfTrace)) = cfg.budget
                 /\ ingest_state.backfill_cursor = Page(L).next_cursor
                 /\ StartCursor = CursorTable[L + 1]
                 /\ DonePages(bfTrace) = FirstPage(bfTrace)..L

\* a run with a budget of two pages has used it up
C9_Witness ==
    /\ bf.pc = "done" /\ bf.stop = "budget"
    /\ cfg.budget = 2
    /\ Len(Reqs(bfTrace)) = 2
    /\ ingest_state.backfill_cursor = "c3"

(* C10: after an ingest-new run that completed without error, whatever ended
   its loop, the persisted watermark is the id of the first tweet of the first
   page, provided that page has a first tweet with an id; with first tweet
   "T100" and a previous watermark "T90" that is on none of the first
   TOP_PAGES pages, every tweet of these pages has been upserted and the
   watermark is "T100". *)
C10_Watermark ==
    ing.pc = "done" =>
        /\ (api.len > 0 /\ ~api.noId) =>
              /\ ingest_state.last_seen_tweet_id = IdTable[1]
              /\ ingTrace[Len(ingTrace)] = Ev("setWatermark", IdTable[1])
        /\ (api.len > 0 /\ ~api.noId /\ ing.stopId = "T90" /\ api.n >= TOP_PAGES) =>
              /\ UpsertIds(ingTrace) = Concat([p \in 1..TOP_PAGES |-> Whole(p)], 1, TOP_PAGES)
              /\ Len(Reqs(ingTrace)) = TOP_PAGES
              /\ ingest_state.last_seen_tweet_id = "T100"

\* the run of the example: watermark "T90" not found on three pages
C10_Witness ==
    /\ ing.pc = "done" /\ ing.stop = "limit"
    /\ ing.stopId = "T90"
    /\ Len(UpsertIds(ingTrace)) = TOP_PAGES * MaxPageLen
    /\ ingest_state.last_seen_tweet_id = "T100"

\* ------------------------------------------------------------ claims: drivers, continued

\* the pages an ingest-new run may fetch: the first TOP_PAGES of the history
TopReach == IF api.n < TOP_PAGES THEN api.n ELSE TOP_PAGES

\* the positions, on these pages, of the tweets whose id is the watermark W
Matches(W) == {g \in 1..(TopReach * api.len) : StoredId(g) = W}
FirstMatch(W) == CHOOSE g \in Matches(W) : \A x \in Matches(W) : g <= x

(* C11: an ingest-new run with a previous watermark W that has ended without
   an error has upserted exactly the tweets that precede the first occurrence
   of W on the pages it may fetch, in order: not W's tweet, none after it, and
   it has requested no page after the one that holds W.  (With no occurrence
   these are all the tweets of these pages.) *)
C11_StopAtWatermark ==
    (ing.pc = "done" /\ ing.stopId /= NULL) =>
        IF Matches(ing.stopId) /= {}
        THEN LET K == FirstMatch(ing.stopId) IN
             /\ UpsertIds(ingTrace) = [i \in 1..(K - 1) |-> StoredId(i)]
             /\ Len(Reqs(ingTrace)) = PageAt(K)
             /\ ing.stop = "match"
        ELSE /\ UpsertIds(ingTrace) = [i \in 1..(TopReach * api.len) |-> StoredId(i)]
             /\ Len(Reqs(ingTrace)) = TopReach

\* the watermark was the last tweet of the second page
C11_Witness ==
    /\ ing.pc = "done" /\ ing.stop = "match"
    /\ ing.stopId = IdTable[2 * MaxPageLen]
    /\ Len(UpsertIds(ingTrace)) = 2 * MaxPageLen - 1
    /\ Len(Reqs(ingTrace)) = 2

\* the run's history ends with the exception of an upsert
UpsertThrew(trace) == Len(trace) > 0 /\ trace[Len(trace)] = Ev("throw", "upsert")

\* the tweet_ids upserted since the last request of the history
SincePage(trace) ==
    LET j == LastReq(trace, Len(trace) + 1)
        u == SelectSeq(SubSeq(trace, j + 1, Len(trace)), LAMBDA x : x.e = "upsert")
    IN {u[i].v : i \in 1..Len(u)}

(* C13: when an upsert of a backfill or ingest-new run has failed, the run has
   ended, the persisted cursor and watermark are what they were when the page
   under way was fetched, and the rows upserted from that page before the
   failure are stored. *)
C13_PartialPage ==
    /\ UpsertThrew(bfTrace) =>
         /\ bf.pc = "failed"
         /\ ingest_state = bf.seen
         /\ SincePage(bfTrace) \subseteq StoredIds
    /\ UpsertThrew(ingTrace) =>
         /\ ing.pc = "failed"
         /\ ingest_state = ing.seen
         /\ SincePage(ingTrace) \subseteq StoredIds

\* a backfill run failed at the second upsert of its second page
C13_Witness ==
    /\ UpsertThrew(bfTrace)
    /\ Len(Reqs(bfTrace)) = 2
    /\ Cardinality(SincePage(bfTrace)) = 1
    /\ ingest_state.backfill_cursor = "c2"

\* page p holds a tweet older than the cutoff
CutPage(p) == \E g \in Positions(p) : OldItem(g)

\* what C18 says of the cursor write at position i of the history but for the
\* run going on after a cursor is persisted: the page just fetched, if it did
\* not hit the cutoff, is upserted whole; if it is the last page the API has,
\* null is persisted and the run ends, else its next_cursor is persisted
NextPagePersisted(i) ==
    LET p == PageOf(bfTrace[LastReq(bfTrace, i)].v) IN
    ~CutPage(p) =>
        /\ UpsertsSince(bfTrace, i, Whole)
        /\ IF p = api.n
           THEN bfTrace[i].v = NULL /\ i = Len(bfTrace) /\ bf.pc = "done"
           ELSE bfTrace[i].v = CursorTable[p + 1]

\* the run goes on with the cursor persisted at position i of the history
GoesOn(i) ==
    IF i < Len(bfTrace) THEN bfTrace[i + 1] = Ev("req", bfTrace[i].v)
    ELSE bf.pc = "fetch" /\ bf.cursor = bfTrace[i].v

\* the run has used up its page budget and ended
BudgetEnd == bf.pc = "done" /\ bf.stop = "budget" /\ Len(Reqs(bfTrace)) = cfg.budget

(* C18 as stated: in a backfill run, a page that did not hit the cutoff is
   upserted whole; if it reports no further page, cursor = null is persisted
   and the run stops; otherwise its next_cursor is persisted and the run
   continues with that cursor. *)
C18_Original ==
    \A i \in 1..Len(bfTrace) :
        bfTrace[i].e = "setCursor" =>
            /\ NextPagePersisted(i)
            /\ bfTrace[i].v /= NULL => GoesOn(i)

(* C18 as amended: the same, but after persisting the next_cursor the run
   continues with that cursor only while its page budget is not used up; at
   the budget it ends with that cursor persisted.  A next_cursor that is
   missing or empty counts as no further page. *)
C18_NextPage ==
    \A i \in 1..Len(bfTrace) :
        bfTrace[i].e = "setCursor" =>
            /\ NextPagePersisted(i)
            /\ bfTrace[i].v /= NULL =>
                 IF Len(SelectSeq(SubSeq(bfTrace, 1, i), LAMBDA x : x.e = "req")) < cfg.budget
                 THEN GoesOn(i)
                 ELSE i = Len(bfTrace) /\ BudgetEnd /\ ingest_state.backfill_cursor = bfTrace[i].v

\* a page whose flag says "more" but which has no next_cursor ended the run
C18_Witness ==
    /\ api.end = "no_cursor"
    /\ api.n = 2
    /\ bf.pc = "done" /\ bf.stop = "no_next"
    /\ bfTrace[Len(bfTrace)] = Ev("setCursor", NULL)
    /\ Len(UpsertIds(bfTrace)) = 2 * MaxPageLen

\* an ingest-new run had a previous watermark, has ended without an error and
\* did not find the watermark on the pages it fetched
NeverMatched == ing.pc = "done" /\ ing.stopId /= NULL /\ Matches(ing.stopId) = {}

(* C19 as stated: an ingest-new run that never matches the previous watermark
   within TOP_PAGES pages leaves the stored watermark as it was. *)
C19_Original == NeverMatched => ingest_state.last_seen_tweet_id = ing.stopId

(* C19 as amended: such a run persists the id of the first tweet of the first
   page as the new watermark; the stored watermark stays as it was only when
   the first page has no first tweet with an id. *)
C19_NoMatch ==
    NeverMatched =>
        IF api.len > 0 /\ ~api.noId
        THEN /\ ingest_state.last_seen_tweet_id = StoredId(1)
             /\ ingest_state.last_seen_tweet_id /= ing.stopId
        ELSE ingest_state.last_seen_tweet_id = ing.stopId

\* the history ended before the watermark "T90" was found, and the head of
\* the first page is the new watermark
C19_Witness ==
    /\ NeverMatched
    /\ ing.stop = "no_next"
    /\ ing.stopId = "T90"
    /\ Len(Reqs(ingTrace)) = 2
    /\ ingest_state.last_seen_tweet_id = "T100"

\* ------------------------------------------------------------ claims: store

(* C15: after any sequence of Post upserts the table holds at most one row per
   post id, and upserting the Post of the last statement once more leaves the
   table, so every stored field value, unchanged. *)
C15_Idempotent ==
    /\ \A r1, r2 \in community_tweets : r1.tweet_id = r2.tweet_id => r1 = r2
    /\ lastUpsert /= NoUpsert =>
         Upserted(community_tweets, lastUpsert.tw) = community_tweets

\* the same Post was upserted twice in a row, onto a row that knew more than
\* the Post, next to the row of another post
C15_Witness ==
    /\ lastUpsert.twice
    /\ Cardinality(community_tweets) = 2
    /\ lastUpsert.tw \notin community_tweets

\* field f of a row, before and after a statement with incoming value `in`:
\* a known value is not nulled, and it changes only to a non-null incoming value
FieldKept(old, new, in) ==
    /\ old /= NULL => new /= NULL
    /\ new /= old => (in /= NULL /\ new = in)

(* C16: no upsert replaces a stored non-null field of a Post (creation time,
   author id, author handle, url, text) with null, and a stored field changes
   only to the non-null incoming value of the Post upserted. *)
C16_Coalesce ==
    [][\A old \in community_tweets :
          \E new \in community_tweets' :
              /\ new.tweet_id = old.tweet_id
              /\ IF lastUpsert'.tw.tweet_id = old.tweet_id
                 THEN LET in == lastUpsert'.tw IN
                      /\ FieldKept(old.created_at, new.created_at, in.created_at)
                      /\ FieldKept(old.author_user_id, new.author_user_id, in.author_user_id)
                      /\ FieldKept(old.author_username, new.author_username, in.author_username)
                      /\ FieldKept(old.url, new.url, in.url)
                      /\ FieldKept(old.text, new.text, in.text)
                 ELSE new = old]_vars

\* a Post with a null author handle was upserted onto a row with a handle,
\* which the row still has
C16_Witness ==
    /\ lastUpsert.tw.author_username = NULL
    /\ \E r \in community_tweets :
          r.tweet_id = lastUpsert.tw.tweet_id /\ r.author_username = "Bob"

\* ------------------------------------------------------------ claims: refresh

\* the exceptions of getUserInfo in a history
FetchThrows(trace) == {i \in 1..Len(trace) : trace[i] = Ev("throw", "fetch")}

(* C12: in a users-refresh run the handles requested so far are the first
   handles of the selected list, each once and in order, whatever failed
   before; a run that has ended has requested every handle; and once the
   handles are selected the run does not end by an exception. *)
C12_Isolation ==
    cmd = "refresh-users" =>
        /\ Reqs(rfTrace) = [k \in 1..Len(Reqs(rfTrace)) |-> Ev("req", rf.list[k])]
        /\ Len(Reqs(rfTrace)) <= Len(rf.list)
        /\ rf.pc = "done" => Len(Reqs(rfTrace)) = Len(rf.list)
        /\ rf.pc = "failed" => rfTrace = <<Ev("throw", "select")>>
        /\ \A i \in FetchThrows(rfTrace) :
              IF Len(SelectSeq(SubSeq(rfTrace, 1, i), LAMBDA x : x.e = "req")) < Len(rf.list)
              THEN rf.pc \in {"fetch", "upsert", "done"}
                   /\ (i < Len(rfTrace) => rfTrace[i + 1].e = "req")
              ELSE i = Len(rfTrace) /\ rf.pc = "done"

\* the fetches of the first two of three handles failed, the third was fetched
\* and the run has ended
C12_Witness ==
    /\ cmd = "refresh-users"
    /\ rf.pc = "done"
    /\ Len(rf.list) = 3
    /\ Len(Reqs(rfTrace)) = 3
    /\ rfTrace[2] = Ev("throw", "fetch") /\ rfTrace[4] = Ev("throw", "fetch")
    /\ Len(rfTrace) > 5

\* the position in the history holds a profile object without id or handle
DroppedAt(i) == rfTrace[i].e \in {"nohandle", "noid"}

(* C14: in a users-refresh run a profile object without identifier or without
   handle leads to no write and no error: the next effect of the run is the
   request of the next handle (or the run ends); and while no response has
   held a complete object the stored profiles are those before the run. *)
C14_Dropped ==
    cmd = "refresh-users" =>
        /\ \A i \in 1..Len(rfTrace) :
              DroppedAt(i) =>
                 IF i < Len(rfTrace) THEN rfTrace[i + 1].e = "req"
                 ELSE rf.pc \in {"fetch", "done"}
        /\ (\A i \in 1..Len(rfTrace) : rfTrace[i].e /= "record") => users \in {{}, OldProfiles}

\* every one of three responses lacked the handle; the run has ended and the
\* profiles are as before
C14_Witness ==
    /\ cmd = "refresh-users"
    /\ rf.pc = "done"
    /\ Len(rf.list) = 3
    /\ rfTrace = <<Ev("req", "al"), Ev("nohandle", "al"), Ev("req", "bob"),
                   Ev("nohandle", "bob"), Ev("req", "cy"), Ev("nohandle", "cy")>>
    /\ users = OldProfiles

\* the history holds an API record for `id` and, later, its write
WrittenFromRecord(id) ==
    \E i, k \in 1..Len(rfTrace) :
        i < k /\ rfTrace[i] = Ev("record", id) /\ rfTrace[k] = Ev("upsert", id)

\* the view count the API reports for a post
ViewsOf(id) == IF id = IdTable[1] THEN 0 ELSE 5

(* C17: a metric snapshot or profile carries this run's timestamp only if the
   run has written it from an API record returned for that post or user, with
   that record's values; a selected post for which no record was returned
   (left out of the batch response, or the batch request failed) has no
   snapshot or a stale one, so it stays eligible. *)
C17_FreshOnlyFromRecord ==
    /\ \A r \in tweet_metrics_latest :
          r.updated_at = "run" =>
             WrittenFromRecord(r.tweet_id) /\ r.view_count = ViewsOf(r.tweet_id)
    /\ \A r \in users :
          r.updated_at = "run" =>
             /\ WrittenFromRecord(r.user_id)
             /\ \E j \in 1..Len(UserIdTable) :
                   r.user_id = UserIdTable[j] /\ r.username = UserNameTable[j]
    /\ cmd = "refresh-metrics" =>
          \A k \in 1..Len(rf.list) :
             (\A i \in 1..Len(rfTrace) : rfTrace[i] /= Ev("record", rf.list[k])) =>
                \A r \in tweet_metrics_latest :
                   r.tweet_id = rf.list[k] => r.updated_at = "stale"

\* a metrics run: the first batch returned one of its two posts, which was
\* written; the second batch failed; a stale snapshot of a selected post is
\* still stale
C17_Witness ==
    /\ cmd = "refresh-metrics"
    /\ rf.pc = "failed"
    /\ rfTrace[Len(rfTrace)] = Ev("throw", "fetch")
    /\ Len(Reqs(rfTrace)) = 2
    /\ Cardinality({r \in tweet_metrics_latest : r.updated_at = "run"}) = 1
    /\ \E r \in tweet_metrics_latest :
          r.updated_at = "stale" /\ \E k \in 1..Len(rf.list) : rf.list[k] = r.tweet_id

(* C20 as stated: a persistence failure raised by an upsert inside a refresh
   driver, the per-handle loop of users-refresh included, aborts the run: the
   run has failed and the failure is the last effect of its history, with no
   request and no upsert after it. *)
C20_Original ==
    \A i \in 1..Len(rfTrace) :
        rfTrace[i] = Ev("throw", "upsert") => (i = Len(rfTrace) /\ rf.pc = "failed")

\* ------------------------------------------------------------ claims: runs side by side

\* the cursor a backfill run leaves when it runs on its own from locals r
RECURSIVE BfAlone(_)
BfAlone(r) ==
    CASE r.pc = "fetch" -> BfAlone(BfContinue(r, PageOf(r.cursor), 1))
      [] r.pc = "upsert" -> BfAlone(BfContinue(r, r.pg, r.idx + 1))
      [] OTHER ->
           IF r.stop /= "none" \/ ~BudgetLeft(r.page + 1) THEN r.pend
           ELSE BfAlone([r EXCEPT !.pc = "fetch", !.page = r.page + 1])

\* the watermark an ingest-new run leaves when it runs on its own from locals
\* r, the row holding `before`
RECURSIVE IngAlone(_, _)
IngAlone(r, before) ==
    CASE r.pc = "fetch" ->
           IngAlone(IngContinue([r EXCEPT !.newLastSeen = Candidate(r, PageOf(r.cursor))],
                                PageOf(r.cursor), 1), before)
      [] r.pc = "upsert" -> IngAlone(IngContinue(r, r.pg, r.idx + 1), before)
      [] r.pc = "setwatermark" -> r.newLastSeen
      [] OTHER -> before

\* the cursor the backfill run under way started from
BfFrom == IF bfTrace = <<>> THEN bf.cursor ELSE bfTrace[1].v

\* the history holds an event of kind e
Has(trace, e) == \E i \in 1..Len(trace) : trace[i].e = e

(* C21: backfill and ingest-new run side by side on one community, their steps
   interleaved in any order.  Until backfill has written the cursor the row
   holds the cursor backfill started from, and until ingest-new has written the
   watermark it holds the watermark ingest-new started from; when both runs
   have ended the cursor is the one backfill leaves when run on its own and the
   watermark the one ingest-new leaves when run on its own, as after the two
   runs one after the other in either order. *)
C21_Interleaving ==
    cmd = "backfill | ingest-new" =>
        /\ (bf.pc /= "idle" /\ ~Has(bfTrace, "setCursor")) =>
              Or(ingest_state.backfill_cursor, NULL) = BfFrom
        /\ (ing.pc /= "idle" /\ ~Has(ingTrace, "setWatermark")) =>
              Or(ingest_state.last_seen_tweet_id, NULL) = ing.stopId
        /\ (bf.pc = "done" /\ ing.pc = "done") =>
              ingest_state =
                 [backfill_cursor |->
                     BfAlone([BfIdle EXCEPT !.pc = "fetch", !.cursor = BfFrom,
                                            !.page = 1]),
                  last_seen_tweet_id |->
                     IngAlone([IngIdle EXCEPT !.pc = "fetch", !.stopId = ing.stopId,
                                              !.page = 1], ing.stopId)]

\* both runs have ended; ingest-new fetched its last page after backfill had
\* persisted the cursor of page 2 and before backfill persisted that of page 3,
\* and backfill fetched its last page before ingest-new wrote the watermark
C21_Witness ==
    /\ cmd = "backfill | ingest-new"
    /\ bf.pc = "done" /\ ing.pc = "done"
    /\ BfFrom = NULL
    /\ ing.seen.backfill_cursor = "c2"
    /\ ingest_state.backfill_cursor = "c3"
    /\ ing.stopId = "T90"
    /\ bf.seen.last_seen_tweet_id = "T90"
    /\ ingest_state.last_seen_tweet_id = "T100"

\* ------------------------------------------------------------ claims: overlapping calls

\* the get() call has started and has neither returned nor thrown
InProgress(c) ==
    cpc[c] \in {"pace_sleep", "in_flight", "read_429", "read_text", "backoff_sleep"}

(* C22 as stated: while two get() calls of one client are both under way, each
   started before the other has finished, the last two outbound requests have
   started at least minIntervalMs apart. *)
C22_Original ==
    ((\A c \in Calls : InProgress(c)) /\ reqCount >= 2) =>
        lastReqTs - prevReqTs >= minIntervalMs

\* ------------------------------------------------------------ claims: backfill anew

(* C23: a backfill run that follows a run ended on the cutoff or on the last
   page (the cursor persisted as null) requests the first page with no cursor
   before anything else, a run of it that has ended has made a request, and
   no upsert of it adds a post that was not stored already: it goes through
   pages processed before instead of issuing no request. *)
C23_StartsAnew ==
    [][ /\ (prevEnd' = "complete" /\ bf'.pc /= "idle") =>
              /\ bfTrace' /= <<>> => bfTrace'[1] = Ev("req", NULL)
              /\ bf'.pc = "fetch" /\ bfTrace' = <<>> => bf'.cursor = NULL
              /\ bf'.pc = "done" => Has(bfTrace', "req")
        /\ prevEnd = "complete" => StoredIds' = StoredIds ]_vars

\* the run before ended on the cutoff or on the last page; this run has
\* fetched two pages from the newest on, upserted posts and ended
C23_Witness ==
    /\ prevEnd = "complete"
    /\ bf.pc = "done"
    /\ bfTrace[1] = Ev("req", NULL)
    /\ Len(Reqs(bfTrace)) = 2
    /\ Has(bfTrace, "upsert")

\* ------------------------------------------------------------ claims: members-sync

\* every page of the listing reports a next page and gives a cursor for it
Endless == \A p \in 1..api.n : ~NoNextPage(MemberPage(p))

(* C24: a members-sync run has no page budget.  It ends without an error only
   on a page that reports no next page (the flag false or missing, or no
   cursor); and if every page reports a next page with a cursor, as when the
   cursor repeats, the run never ends normally: unless an error ends it, it is
   about to request a page again and again, for ever. *)
C24_NoBudget ==
    /\ [](sm.pc = "done" => NoNextPage(MemberPage(sm.pg)))
    /\ [](Endless => sm.pc /= "done")
    /\ (Endless => [](sm.pc /= "idle" => <>(sm.pc = "fetch" \/ sm.pc = "failed")))

\* the last page repeats its cursor: the run has requested more pages than any
\* budget of the other drivers and is about to request one more
C24_Witness ==
    /\ cmd = "sync-members"
    /\ api.end = "repeat"
    /\ Endless
    /\ sm.reqs = MaxRequests
    /\ sm.reqs > TOP_PAGES /\ sm.reqs > MaxBudget
    /\ sm.pc = "fetch"

====
